---- MODULE Spec2Model ----
(***************************************************************************)
(* Federated key-value query service (basecamp): the portal's QueryData,   *)
(* the inter-node GatherData, the per-node local store and the portal's    *)
(* query cache, modelled from basecamp_service_impl.cpp.                   *)
(***************************************************************************)
EXTENDS Integers, Sequences, FiniteSets, TLC

VARIABLES
    config_,        \* the parsed topology document shared by every node
    data_map_,      \* data_map_[n]: node n's shared-memory map key -> serialized DataItem
    query_cache_,   \* the portal's std::deque<CacheEntry>
    now,            \* system_clock, in milliseconds
    call,           \* call[c]: the HandleQueryData invocation serving client c
    tasks,          \* tasks[c]: the GatherData tasks of c's query, keyed by route path
    ncalls,         \* number of QueryData calls started so far
    history,        \* what the clients have observed (used by the properties only)
    startup,        \* the service instance under construction: document, node id, progress
    owner,          \* owner[m]: the thread that holds mutex m, "" when it is free
    threads,        \* threads[t]: the lock operations thread t has left, the mutexes it holds
    rpc,            \* the invocation of a messaging handler: stream, response, position
    messages_,      \* std::unordered_map message id -> MessageRequest
    subscriptions_  \* std::unordered_map subscriber id -> topics

\* the state of the query engine, and the rest
queryvars == <<config_, data_map_, query_cache_, now, call, tasks, ncalls, history>>
othervars == <<startup, owner, threads, rpc, messages_, subscriptions_>>
vars == <<queryvars, othervars>>

(***************************************************************************)
(* Bounds of the model.                                                    *)
(***************************************************************************)
KeysPerNode == 2          \* width of every node's data range in the small topologies
MaxCalls == 3             \* QueryData calls per behaviour
MaxTicks == 2             \* clock ticks per behaviour
MaxCacheSize == 2         \* largest cache_size of the small topologies

MsPerTick == 1000         \* one clock tick, in milliseconds
MsPerSecond == 1000

Clients == {"c1", "c2"}
QueryIds == {"q1", "q2"}
Values == {"v1", "v2"}

Min(a, b) == IF a <= b THEN a ELSE b
Max(a, b) == IF a >= b THEN a ELSE b
Last(s) == s[Len(s)]
Front(s) == SubSeq(s, 1, Len(s) - 1)
Range(s) == {s[i] : i \in 1..Len(s)}

\* C++ integer remainder (truncated towards zero)
CRem(a, b) == IF a >= 0 THEN a % b ELSE 0 - ((0 - a) % b)

(***************************************************************************)
(* Topologies (the configuration file).                                    *)
(***************************************************************************)
\* the topology of the end-to-end scenarios
RefTopology ==
    [ portal            |-> "A",
      nodes             |-> {"A", "B", "C"},
      data_range        |-> [n \in {"A", "B", "C"} |->
                               IF n = "A" THEN <<1, 100>>
                               ELSE IF n = "B" THEN <<101, 200>> ELSE <<201, 300>>],
      connects_to       |-> [n \in {"A", "B", "C"} |-> {"A", "B", "C"} \ {n}],
      cache_size        |-> 4,
      cache_ttl_seconds |-> 30 ]

\* node i of a small topology owns [(i-1)*KeysPerNode + 1, i*KeysPerNode]
NodeName == <<"A", "B", "C", "D", "E">>
SmallNodes(k) == {NodeName[i] : i \in 1..k}
SmallRange(k) ==
    [n \in SmallNodes(k) |->
        LET i == CHOOSE j \in 1..k : NodeName[j] = n
        IN  <<(i - 1) * KeysPerNode + 1, i * KeysPerNode>>]

\* a small topology with the given peer graph
SmallTopology(k, conn, size) ==
    [ portal            |-> "A",
      nodes             |-> SmallNodes(k),
      data_range        |-> SmallRange(k),
      connects_to       |-> conn,
      cache_size        |-> size,
      cache_ttl_seconds |-> 1 ]

\* three nodes, every node connected to the other two
MeshTopology(size) ==
    SmallTopology(3, [n \in SmallNodes(3) |-> SmallNodes(3) \ {n}], size)

\* two nodes connected to each other
PairTopology(size) ==
    SmallTopology(2, [n \in SmallNodes(2) |-> SmallNodes(2) \ {n}], size)

\* every peer graph over k nodes without self loops
AllGraphs(k) == [SmallNodes(k) -> SUBSET SmallNodes(k)]
LoopFree(k) == {g \in AllGraphs(k) : \A n \in SmallNodes(k) : n \notin g[n]}

\* a chain A -> B -> C -> D -> E
ChainTopology ==
    SmallTopology(5, [n \in SmallNodes(5) |->
                        IF n = "A" THEN {"B"} ELSE IF n = "B" THEN {"C"}
                        ELSE IF n = "C" THEN {"D"} ELSE IF n = "D" THEN {"E"} ELSE {}], 1)

\* LoadConfig: the fields every node reads from the document
data_range_(n) == config_.data_range[n]
\* a portal test that every node of the topology passes
is_portal_Always(n) == n \in config_.nodes
is_portal_(n) == config_.portal = n
cache_size_ == config_.cache_size
cache_ttl_seconds_ == config_.cache_ttl_seconds
\* ConnectToPeers: one stub per connects_to entry that exists in the document
peers_(n) == config_.connects_to[n] \cap config_.nodes

AllKeys(cfg) == UNION {cfg.data_range[n][1]..cfg.data_range[n][2] : n \in cfg.nodes}
Owner(cfg, k) == {n \in cfg.nodes : cfg.data_range[n][1] <= k /\ k <= cfg.data_range[n][2]}

(***************************************************************************)
(* DataItem and its codec.                                                 *)
(***************************************************************************)
NoObject == [name |-> "", tags |-> <<>>, properties |-> <<>>, created_at |-> 0, updated_at |-> 0]

\* a default-constructed DataItem: every scalar at its default, no value variant set
EmptyItem ==
    [ key |-> 0, source_node |-> "", timestamp |-> 0, data_type |-> "",
      metadata |-> <<>>, variant |-> "none",
      string_value |-> "", double_value_x2 |-> 0, bool_value |-> FALSE,
      object_value |-> NoObject, binary_value |-> "" ]

OneofFields == {"string_value", "double_value_x2", "bool_value", "object_value", "binary_value"}
ScalarFields == {"key", "source_node", "timestamp", "data_type", "metadata"}

\* SerializeAsString: a scalar field is on the wire only when it differs from its
\* default; the member of the oneof that is set is always on the wire
SerializeDataItem(item) ==
    LET present == {f \in ScalarFields : item[f] # EmptyItem[f]}
                   \cup {f \in OneofFields : f = item.variant}
    IN  [f \in present |-> item[f]]

\* ParseFromString: absent fields read as their defaults, the oneof case is the
\* member found on the wire
DeserializeDataItem(serialized) ==
    LET oneof == DOMAIN serialized \cap OneofFields
    IN  [f \in DOMAIN EmptyItem |->
            IF f = "variant"
            THEN (IF oneof = {} THEN "none" ELSE CHOOSE v \in oneof : TRUE)
            ELSE IF f \in DOMAIN serialized THEN serialized[f] ELSE EmptyItem[f]]

DataTypes == <<"user", "product", "transaction", "event", "log">>

\* index key % data_types.size(): key is converted to a 64-bit unsigned first,
\* so a negative key k indexes (2^64 + k) mod 5 = (k + 1) mod 5
DataTypeIndex(key) == IF key >= 0 THEN key % 5 ELSE (key + 1) % 5

Metadata(node) == <<<<"created_by", node>>, <<"version", "1.0">>>>

CreateRandomDataItem(node, key, t) ==
    LET base == [EmptyItem EXCEPT !.key = key, !.source_node = node, !.timestamp = t,
                                  !.data_type = DataTypes[DataTypeIndex(key) + 1],
                                  !.metadata = Metadata(node)]
        sel == CRem(key, 5)
    IN  IF sel = 0 THEN
            [base EXCEPT !.variant = "string_value",
                         !.string_value = "String value for key " \o ToString(key) \o " from " \o node]
        ELSE IF sel = 1 THEN
            [base EXCEPT !.variant = "double_value_x2", !.double_value_x2 = key * 3]
        ELSE IF sel = 2 THEN
            [base EXCEPT !.variant = "bool_value", !.bool_value = (CRem(key, 2) = 0)]
        ELSE IF sel = 3 THEN
            [base EXCEPT !.variant = "object_value",
                         !.object_value = [name |-> "Object_" \o ToString(key),
                                           tags |-> <<"tag1", "tag2">>,
                                           properties |-> <<<<"property1", "value1">>,
                                                            <<"property2", "value2">>>>,
                                           created_at |-> t - 3600000,
                                           updated_at |-> t]]
        ELSE IF sel = 4 THEN
            [base EXCEPT !.variant = "binary_value",
                         !.binary_value = "Binary data for key " \o ToString(key)]
        ELSE base

(***************************************************************************)
(* Local store.                                                            *)
(***************************************************************************)
\* a store that inserts without overwriting an existing key
StoreDataInSharedMemory_InsertOnly(map, key, item) ==
    [k \in DOMAIN map \cup {key} |-> IF k \in DOMAIN map THEN map[k] ELSE SerializeDataItem(item)]

\* insert_or_assign under the named mutex
StoreDataInSharedMemory(map, key, item) ==
    [k \in DOMAIN map \cup {key} |-> IF k = key THEN SerializeDataItem(item) ELSE map[k]]

\* find under the named mutex; <<>> when the key is absent, <<item>> otherwise
RetrieveDataFromSharedMemory(map, key) ==
    IF key \in DOMAIN map THEN <<DeserializeDataItem(map[key])>> ELSE <<>>

\* InitializeTestData: one synthetic item per key of the node's range
InitializeTestData(cfg, n, t) ==
    [k \in cfg.data_range[n][1]..cfg.data_range[n][2] |->
        SerializeDataItem(CreateRandomDataItem(n, k, t))]

\* the items of keys lo..hi found in the map, in key order
RECURSIVE RetrieveRange(_, _, _)
RetrieveRange(map, lo, hi) ==
    IF lo > hi THEN <<>>
    ELSE IF lo = hi THEN RetrieveDataFromSharedMemory(map, lo)
    ELSE LET mid == (lo + hi) \div 2   \* the loop over lo..hi, split to keep the evaluation shallow
         IN  RetrieveRange(map, lo, mid) \o RetrieveRange(map, mid + 1, hi)

(***************************************************************************)
(* Query cache (portal).                                                   *)
(***************************************************************************)
\* an expiry test that already fires when the age reaches the TTL
isExpired_AtTtl(entry, ttl_seconds, t) ==
    ((t - entry.timestamp) \div MsPerSecond) >= ttl_seconds

\* CacheEntry::isExpired, and the predicate of CleanCache: age in whole seconds
isExpired(entry, ttl_seconds, t) ==
    ((t - entry.timestamp) \div MsPerSecond) > ttl_seconds

\* erase(remove_if(expired))
CleanCache(cache, ttl_seconds, t) ==
    SelectSeq(cache, LAMBDA entry : ~isExpired(entry, ttl_seconds, t))

\* the entries CheckCache may return: same query id and not expired
CacheMatches(cache, query_id, ttl_seconds, t) ==
    {i \in 1..Len(cache) : cache[i].query_id = query_id
                           /\ ~isExpired(cache[i], ttl_seconds, t)}

\* CheckCache after its CleanCache: index of the first match in deque order, 0 on a miss
CheckCache(cache, query_id, ttl_seconds, t) ==
    LET m == CacheMatches(cache, query_id, ttl_seconds, t)
    IN  IF m = {} THEN 0 ELSE CHOOSE i \in m : \A j \in m : i <= j

\* an AddToCache that makes room only when the deque is over its size
AddToCache_EvictWhenOver(cache, size, ttl_seconds, query_id, response, t) ==
    LET cleaned == CleanCache(cache, ttl_seconds, t)
        room    == IF Len(cleaned) > size THEN Tail(cleaned) ELSE cleaned
    IN  Append(room, [query_id |-> query_id, response |-> response, timestamp |-> t])

\* an AddToCache that makes room at the back of the deque
AddToCache_EvictNewest(cache, size, ttl_seconds, query_id, response, t) ==
    LET cleaned == CleanCache(cache, ttl_seconds, t)
        room    == IF Len(cleaned) >= size THEN Front(cleaned) ELSE cleaned
    IN  Append(room, [query_id |-> query_id, response |-> response, timestamp |-> t])

\* AddToCache: sweep, pop_front when full, push_back
AddToCache(cache, size, ttl_seconds, query_id, response, t) ==
    LET cleaned == CleanCache(cache, ttl_seconds, t)
        room    == IF Len(cleaned) >= size THEN Tail(cleaned) ELSE cleaned
    IN  Append(room, [query_id |-> query_id, response |-> response, timestamp |-> t])

(***************************************************************************)
(* Requests and responses.                                                 *)
(***************************************************************************)
NoRequest ==
    [ query_id |-> "", client_id |-> "", query_type |-> "", key |-> 0,
      range_start |-> 0, range_end |-> 0, string_param |-> "" ]

NoResponse ==
    [ query_id |-> "", results |-> <<>>, success |-> FALSE, error_message |-> "",
      timestamp |-> 0, processing_time |-> 0, from_cache |-> FALSE ]

ExactRequest(q, c, k) ==
    [NoRequest EXCEPT !.query_id = q, !.client_id = c, !.query_type = "exact", !.key = k]
RangeRequest(q, c, a, b) ==
    [NoRequest EXCEPT !.query_id = q, !.client_id = c, !.query_type = "range",
                      !.range_start = a, !.range_end = b]
AllRequest(q, c) ==
    [NoRequest EXCEPT !.query_id = q, !.client_id = c, !.query_type = "all"]
WriteRequest(q, c, k, v) ==
    [NoRequest EXCEPT !.query_id = q, !.client_id = c, !.query_type = "write",
                      !.key = k, !.string_param = v]

\* a range guard that lets a write through whatever its key
LocalInRange_WriteAnywhere(range, request) ==
    IF request.query_type = "exact"
    THEN request.key >= range[1] /\ request.key <= range[2]
    ELSE IF request.query_type = "range"
    THEN request.range_start <= range[2] /\ request.range_end >= range[1]
    ELSE request.query_type \in {"all", "write"}

\* the range guard of node n for a query of the portal's client
LocalInRange(range, request) ==
    IF request.query_type \in {"exact", "write"}
    THEN request.key >= range[1] /\ request.key <= range[2]
    ELSE IF request.query_type = "range"
    THEN request.range_start <= range[2] /\ request.range_end >= range[1]
    ELSE request.query_type = "all"

\* a written item that names the client as its source
WrittenItem_ByClient(n, request, t) ==
    [EmptyItem EXCEPT !.key = request.key, !.variant = "string_value",
                      !.string_value = request.string_param,
                      !.source_node = request.client_id,
                      !.timestamp = t, !.data_type = "string", !.metadata = Metadata(n)]

\* the item a write query stores
WrittenItem(n, request, t) ==
    [EmptyItem EXCEPT !.key = request.key, !.variant = "string_value",
                      !.string_value = request.string_param, !.source_node = n,
                      !.timestamp = t, !.data_type = "string", !.metadata = Metadata(n)]

\* a QueryLocalData whose range branch forgets to clamp to the requested range
QueryLocalData_NoClamp(n, range, map, request, t) ==
    IF ~LocalInRange(range, request) THEN [results |-> <<>>, map |-> map]
    ELSE IF request.query_type = "exact" THEN
        [results |-> RetrieveDataFromSharedMemory(map, request.key), map |-> map]
    ELSE IF request.query_type = "write" THEN
        [results |-> <<WrittenItem(n, request, t)>>,
         map |-> StoreDataInSharedMemory(map, request.key, WrittenItem(n, request, t))]
    ELSE [results |-> RetrieveRange(map, range[1], range[2]), map |-> map]

\* QueryLocalData: the results appended to the response and the map afterwards
QueryLocalData(n, range, map, request, t) ==
    IF ~LocalInRange(range, request) THEN [results |-> <<>>, map |-> map]
    ELSE IF request.query_type = "exact" THEN
        [results |-> RetrieveDataFromSharedMemory(map, request.key), map |-> map]
    ELSE IF request.query_type = "write" THEN
        [results |-> <<WrittenItem(n, request, t)>>,
         map |-> StoreDataInSharedMemory(map, request.key, WrittenItem(n, request, t))]
    ELSE IF request.query_type = "range" THEN
        [results |-> RetrieveRange(map, Max(request.range_start, range[1]),
                                        Min(request.range_end, range[2])),
         map |-> map]
    ELSE [results |-> RetrieveRange(map, range[1], range[2]), map |-> map]

\* the range guard of ProcessForwardedRequest: no branch for "write"
ForwardedInRange(range, request) ==
    IF request.query_type = "exact"
    THEN request.key >= range[1] /\ request.key <= range[2]
    ELSE IF request.query_type = "range"
    THEN request.range_start <= range[2] /\ request.range_end >= range[1]
    ELSE request.query_type = "all"

\* ProcessForwardedRequest: the data items appended to the response
ProcessForwardedRequest(range, map, request) ==
    IF ~ForwardedInRange(range, request) THEN <<>>
    ELSE IF request.query_type = "exact" THEN RetrieveDataFromSharedMemory(map, request.key)
    ELSE IF request.query_type = "range" THEN
        RetrieveRange(map, Max(request.range_start, range[1]), Min(request.range_end, range[2]))
    ELSE RetrieveRange(map, range[1], range[2])

\* a should_query whose exact test excludes the first key of the peer's range
ShouldQuery_OffByOne(peer_range, request) ==
    IF request.query_type = "exact"
    THEN request.key > peer_range[1] /\ request.key <= peer_range[2]
    ELSE IF request.query_type = "range"
    THEN request.range_start <= peer_range[2] /\ request.range_end >= peer_range[1]
    ELSE request.query_type \in {"all", "write"}

\* QueryPeers: should_query for one peer
ShouldQuery(peer_range, request) ==
    IF request.query_type = "exact"
    THEN request.key >= peer_range[1] /\ request.key <= peer_range[2]
    ELSE IF request.query_type = "range"
    THEN request.range_start <= peer_range[2] /\ request.range_end >= peer_range[1]
    ELSE request.query_type \in {"all", "write"}

\* ForwardRequestToPeers: should_forward for one peer
ShouldForward(peer_range, request) ==
    IF request.query_type = "exact"
    THEN request.key >= peer_range[1] /\ request.key <= peer_range[2]
    ELSE IF request.query_type = "range"
    THEN request.range_start <= peer_range[2] /\ request.range_end >= peer_range[1]
    ELSE request.query_type = "all"

MaxHops == 3

\* the timeout of HandleQueryData and of the wait for the futures, and the
\* deadline of one GatherData call, in milliseconds
QueryTimeout == 4000
FanOutTimeout == 4000
RpcDeadline == 5000

\* a portal request that leaves the portal out of visited_nodes
PortalDataRequest_NoVisited(n, request) ==
    [ request_id |-> request.query_id, requester_id |-> n, key |-> request.key,
      query_type |-> request.query_type, range_start |-> request.range_start,
      range_end |-> request.range_end, hop_count |-> 0, max_hops |-> MaxHops,
      route_path |-> <<n>>, forward_to_peers |-> TRUE, visited_nodes |-> <<>>,
      query_context |-> <<<<"client_id", request.client_id>>, <<"origin", "portal">>>> ]

\* QueryPeers: the DataRequest the portal emits
PortalDataRequest(n, request) ==
    [ request_id |-> request.query_id, requester_id |-> n, key |-> request.key,
      query_type |-> request.query_type, range_start |-> request.range_start,
      range_end |-> request.range_end, hop_count |-> 0, max_hops |-> MaxHops,
      route_path |-> <<n>>, forward_to_peers |-> TRUE, visited_nodes |-> <<n>>,
      query_context |-> <<<<"client_id", request.client_id>>, <<"origin", "portal">>>> ]

\* a forwarded copy whose hop count advances by two
ForwardedRequest_DoubleHop(n, request) ==
    [request EXCEPT !.hop_count = request.hop_count + 2,
                    !.route_path = Append(request.route_path, n),
                    !.visited_nodes = Append(request.visited_nodes, n)]

\* a forwarded copy that keeps the hop count it came with
ForwardedRequest_SameHop(n, request) ==
    [request EXCEPT !.route_path = Append(request.route_path, n),
                    !.visited_nodes = Append(request.visited_nodes, n)]

\* HandleGatherData: the copy of the request a node forwards
ForwardedRequest(n, request) ==
    [request EXCEPT !.hop_count = request.hop_count + 1,
                    !.route_path = Append(request.route_path, n),
                    !.visited_nodes = Append(request.visited_nodes, n)]

\* ForwardRequestToPeers: the peers a task is launched for
ForwardTargets(n, fwd) ==
    {p \in peers_(n) : p \notin Range(fwd.visited_nodes) /\ ShouldForward(data_range_(p), fwd)}

\* a QueryPeers that launches a task for every peer
QueryTargets_AllPeers(n, request) == peers_(n)

\* QueryPeers: the peers a task is launched for
QueryTargets(n, request) ==
    {p \in peers_(n) : ShouldQuery(data_range_(p), request)}

NoDataResponse ==
    [ request_id |-> "", responder_id |-> "", route_path |-> <<>>,
      contributing_nodes |-> <<>>, data_items |-> <<>>, success |-> FALSE,
      error_message |-> "" ]

(***************************************************************************)
(* State of the calls in flight.                                           *)
(***************************************************************************)
StartTime == 3600 * MsPerSecond

NoCall ==
    [ pc |-> "idle", node |-> "", request |-> NoRequest, response |-> NoResponse,
      start_time |-> 0, lossy |-> FALSE,
      \* the transport statuses the reply callback was invoked with, in order
      callback |-> <<>>,
      \* what() of the exceptions raised inside the handler, in order
      thrown |-> <<>>,
      \* QueryPeers: start of the wait for the futures; whether a task appended
      \* its items FanOutTimeout or more after it
      fanout_start |-> 0, late |-> FALSE,
      \* what the client knew when it issued the call (used by the properties only)
      first_use |-> FALSE, expect |-> "", prior |-> <<>>, pre_map |-> <<>> ]

NoTasks == [p \in {} |-> 0]

\* the tasks launched by the invocation whose route path is path
Children(ts, path) ==
    {q \in DOMAIN ts : Len(q) = Len(path) + 1 /\ SubSeq(q, 1, Len(path)) = path}

\* one std::async task per target, its request in flight
Launch(path, targets, request) ==
    [q \in {Append(path, p) : p \in targets} |->
        [status |-> "sent", request |-> request, response |-> NoDataResponse,
         callback |-> <<>>, thrown |-> <<>>]]

NoHistory ==
    [ asked   |-> [q \in QueryIds |-> {}],    \* the queries every id has been used for
      written |-> <<>>,                       \* <<key, value>> of the last write that replied
      fresh   |-> [q \in QueryIds |-> <<>>],  \* the last uncached reply of every id
      put     |-> <<>> ]                      \* <<key, value>> of the put executed last

QueryOf(request) ==
    <<request.query_type, request.key, request.range_start, request.range_end>>

(***************************************************************************)
(* Start-up.                                                               *)
(***************************************************************************)
\* no service instance is under construction
NoStartup == [document |-> <<>>, node_id |-> "", result |-> "none"]
\* no mutex is in use
NoOwner == [m \in {} |-> ""]
NoThreads == [t \in {} |-> 0]
\* no messaging handler is running
NoRpc == [pc |-> "idle"]
\* an empty unordered_map
NoMessages == [k \in {} |-> 0]

\* constructor of every node of topology cfg: LoadConfig, InitSharedMemory,
\* InitializeTestData
ConstructNodes(cfg) ==
    /\ config_ = cfg
    /\ now = StartTime
    /\ data_map_ = [n \in cfg.nodes |-> InitializeTestData(cfg, n, StartTime)]
    /\ query_cache_ = <<>>
    /\ call = [c \in Clients |-> NoCall]
    /\ tasks = [c \in Clients |-> NoTasks]
    /\ ncalls = 0
    /\ history = NoHistory

\* the nodes are up, no thread is in a handler, no message is stored
Construct(cfg) ==
    /\ ConstructNodes(cfg)
    /\ startup = NoStartup
    /\ owner = NoOwner
    /\ threads = NoThreads
    /\ rpc = NoRpc
    /\ messages_ = NoMessages
    /\ subscriptions_ = NoMessages

(***************************************************************************)
(* HandleQueryData.                                                        *)
(***************************************************************************)
\* a handler that never looks a write up in the cache
HandleQueryData_Begin_WriteThrough(c, n, request) ==
    /\ call[c].pc \in {"idle", "done"}
    /\ LET fresh0 == history.fresh[request.query_id]
           begun == [NoCall EXCEPT !.node = n, !.request = request, !.start_time = now,
                                   !.expect = IF history.written # <<>>
                                                 /\ history.written[1] = request.key
                                              THEN history.written[2] ELSE "",
                                   !.first_use = (history.asked[request.query_id] = {}),
                                   !.prior = fresh0,
                                   !.pre_map = IF request.query_type = "write"
                                               THEN <<data_map_>> ELSE <<>>]
       IN
       IF ~is_portal_(n) THEN
           /\ call' = [call EXCEPT ![c] =
                  [begun EXCEPT !.pc = "done",
                                !.callback = <<"OK">>,
                                !.response = [NoResponse EXCEPT
                                    !.success = FALSE,
                                    !.error_message = "This node is not the portal"]]]
           /\ UNCHANGED query_cache_
       ELSE
           LET cleaned == CleanCache(query_cache_, cache_ttl_seconds_, now)
               hit == IF request.query_type = "write" THEN 0
                      ELSE CheckCache(cleaned, request.query_id, cache_ttl_seconds_, now)
           IN  /\ query_cache_' = cleaned
               /\ IF hit # 0
                  THEN call' = [call EXCEPT ![c] =
                           [begun EXCEPT !.pc = "done",
                                         !.callback = <<"OK">>,
                                         !.response = [cleaned[hit].response EXCEPT
                                             !.from_cache = TRUE,
                                             !.processing_time = 0]]]
                  ELSE call' = [call EXCEPT ![c] =
                           [begun EXCEPT !.pc = "local",
                                         !.response = [NoResponse EXCEPT
                                             !.query_id = request.query_id,
                                             !.timestamp = now]]]
    /\ tasks' = [tasks EXCEPT ![c] = NoTasks]
    /\ ncalls' = ncalls + 1
    /\ history' = IF is_portal_(n)
                  THEN [history EXCEPT !.asked[request.query_id] = @ \cup {QueryOf(request)}]
                  ELSE history
    /\ UNCHANGED <<config_, data_map_, now>>
    /\ UNCHANGED othervars

\* a handler whose hits restart the TTL of the entry
HandleQueryData_Begin_SlidingTtl(c, n, request) ==
    /\ call[c].pc \in {"idle", "done"}
    /\ LET fresh0 == history.fresh[request.query_id]
           begun == [NoCall EXCEPT !.node = n, !.request = request, !.start_time = now,
                                   !.expect = IF history.written # <<>>
                                                 /\ history.written[1] = request.key
                                              THEN history.written[2] ELSE "",
                                   !.first_use = (history.asked[request.query_id] = {}),
                                   !.prior = fresh0,
                                   !.pre_map = IF request.query_type = "write"
                                               THEN <<data_map_>> ELSE <<>>]
       IN
       IF ~is_portal_(n) THEN
           /\ call' = [call EXCEPT ![c] =
                  [begun EXCEPT !.pc = "done",
                                !.callback = <<"OK">>,
                                !.response = [NoResponse EXCEPT
                                    !.success = FALSE,
                                    !.error_message = "This node is not the portal"]]]
           /\ UNCHANGED query_cache_
       ELSE
           LET cleaned == CleanCache(query_cache_, cache_ttl_seconds_, now)
               hit == CheckCache(cleaned, request.query_id, cache_ttl_seconds_, now)
           IN  /\ query_cache_' = IF hit # 0 THEN [cleaned EXCEPT ![hit].timestamp = now]
                                  ELSE cleaned
               /\ IF hit # 0
                  THEN call' = [call EXCEPT ![c] =
                           [begun EXCEPT !.pc = "done",
                                         !.callback = <<"OK">>,
                                         !.response = [cleaned[hit].response EXCEPT
                                             !.from_cache = TRUE,
                                             !.processing_time = 0]]]
                  ELSE call' = [call EXCEPT ![c] =
                           [begun EXCEPT !.pc = "local",
                                         !.response = [NoResponse EXCEPT
                                             !.query_id = request.query_id,
                                             !.timestamp = now]]]
    /\ tasks' = [tasks EXCEPT ![c] = NoTasks]
    /\ ncalls' = ncalls + 1
    /\ history' = IF is_portal_(n)
                  THEN [history EXCEPT !.asked[request.query_id] = @ \cup {QueryOf(request)}]
                  ELSE history
    /\ UNCHANGED <<config_, data_map_, now>>
    /\ UNCHANGED othervars

\* entry of the handler up to the cache lookup
HandleQueryData_Begin(c, n, request) ==
    /\ call[c].pc \in {"idle", "done"}
    /\ LET fresh0 == history.fresh[request.query_id]
           begun == [NoCall EXCEPT !.node = n, !.request = request, !.start_time = now,
                                   !.expect = IF history.written # <<>>
                                                 /\ history.written[1] = request.key
                                              THEN history.written[2] ELSE "",
                                   !.first_use = (history.asked[request.query_id] = {}),
                                   !.prior = fresh0,
                                   !.pre_map = IF request.query_type = "write"
                                               THEN <<data_map_>> ELSE <<>>]
       IN
       IF ~is_portal_(n) THEN
           /\ call' = [call EXCEPT ![c] =
                  [begun EXCEPT !.pc = "done",
                                !.callback = <<"OK">>,
                                !.response = [NoResponse EXCEPT
                                    !.success = FALSE,
                                    !.error_message = "This node is not the portal"]]]
           /\ UNCHANGED query_cache_
       ELSE
           LET cleaned == CleanCache(query_cache_, cache_ttl_seconds_, now)
               hit == CheckCache(cleaned, request.query_id, cache_ttl_seconds_, now)
           IN  /\ query_cache_' = cleaned
               /\ IF hit # 0
                  THEN call' = [call EXCEPT ![c] =
                           [begun EXCEPT !.pc = "done",
                                         !.callback = <<"OK">>,
                                         !.response = [cleaned[hit].response EXCEPT
                                             !.from_cache = TRUE,
                                             !.processing_time = 0]]]
                  ELSE call' = [call EXCEPT ![c] =
                           [begun EXCEPT !.pc = "local",
                                         !.response = [NoResponse EXCEPT
                                             !.query_id = request.query_id,
                                             !.timestamp = now]]]
    /\ tasks' = [tasks EXCEPT ![c] = NoTasks]
    /\ ncalls' = ncalls + 1
    /\ history' = IF is_portal_(n)
                  THEN [history EXCEPT !.asked[request.query_id] = @ \cup {QueryOf(request)}]
                  ELSE history
    /\ UNCHANGED <<config_, data_map_, now>>
    /\ UNCHANGED othervars

\* QueryLocalData, then QueryPeers up to the launch of its tasks
HandleQueryData_Local(c) ==
    /\ call[c].pc = "local"
    /\ LET n == call[c].node
           request == call[c].request
           local == QueryLocalData(n, data_range_(n), data_map_[n], request, now)
           targets == IF now - call[c].start_time < QueryTimeout
                      THEN QueryTargets(n, request) ELSE {}
       IN  /\ data_map_' = [data_map_ EXCEPT ![n] = local.map]
           /\ call' = [call EXCEPT ![c].pc = "wait",
                                   ![c].response.results = local.results,
                                   ![c].fanout_start = now]
           /\ tasks' = [tasks EXCEPT ![c] =
                  Launch(<<n>>, targets, PortalDataRequest(n, request))]
           /\ history' = IF request.query_type = "write" /\ LocalInRange(data_range_(n), request)
                         THEN [history EXCEPT !.put = <<request.key, request.string_param>>]
                         ELSE history
    /\ UNCHANGED <<config_, query_cache_, now, ncalls>>
    /\ UNCHANGED othervars

\* a handler that goes on with the tasks still running once the wait loop has given up
HandleQueryData_End_GivesUp(c) ==
    /\ call[c].pc = "wait"
    /\ \/ \A q \in Children(tasks[c], <<call[c].node>>) : tasks[c][q].status = "finished"
       \/ now - call[c].fanout_start >= FanOutTimeout
    /\ LET request == call[c].request
           response == [call[c].response EXCEPT !.success = TRUE,
                                                !.processing_time = now - call[c].start_time]
           cleaned == CleanCache(query_cache_, cache_ttl_seconds_, now)
       IN  /\ query_cache_' = AddToCache(query_cache_, cache_size_, cache_ttl_seconds_,
                                         request.query_id, response, now)
           /\ call' = [call EXCEPT ![c].pc = "done", ![c].response = response,
                                   ![c].fanout_start = 0,
                                   ![c].callback = Append(@, "OK")]
           /\ history' =
                [history EXCEPT
                    !.written = IF request.query_type = "write"
                                THEN <<request.key, request.string_param>> ELSE @,
                    !.fresh = [q \in QueryIds |->
                        IF q = request.query_id
                        THEN <<[results |-> response.results, time |-> now, inserts |-> 0,
                                shadowed |-> CacheMatches(cleaned, q, cache_ttl_seconds_, now) # {}]>>
                        ELSE IF @[q] = <<>> THEN <<>>
                        ELSE <<[@[q][1] EXCEPT !.inserts = @ + 1]>>]]
    /\ UNCHANGED <<config_, data_map_, now, tasks, ncalls>>
    /\ UNCHANGED othervars

\* a handler that keeps a response out of the cache when a peer call has failed
HandleQueryData_End_SkipsDegraded(c) ==
    /\ call[c].pc = "wait"
    /\ \A q \in Children(tasks[c], <<call[c].node>>) : tasks[c][q].status = "finished"
    /\ LET request == call[c].request
           response == [call[c].response EXCEPT !.success = TRUE,
                                                !.processing_time = now - call[c].start_time]
           cleaned == CleanCache(query_cache_, cache_ttl_seconds_, now)
       IN  /\ query_cache_' = IF call[c].lossy THEN cleaned
                             ELSE AddToCache(query_cache_, cache_size_, cache_ttl_seconds_,
                                             request.query_id, response, now)
           /\ call' = [call EXCEPT ![c].pc = "done", ![c].response = response,
                                   ![c].fanout_start = 0,
                                   ![c].callback = Append(@, "OK")]
           /\ history' =
                [history EXCEPT
                    !.written = IF request.query_type = "write"
                                THEN <<request.key, request.string_param>> ELSE @,
                    !.fresh = [q \in QueryIds |->
                        IF q = request.query_id
                        THEN <<[results |-> response.results, time |-> now, inserts |-> 0,
                                shadowed |-> CacheMatches(cleaned, q, cache_ttl_seconds_, now) # {}]>>
                        ELSE IF @[q] = <<>> THEN <<>>
                        ELSE <<[@[q][1] EXCEPT !.inserts = @ + 1]>>]]
    /\ UNCHANGED <<config_, data_map_, now, tasks, ncalls>>
    /\ UNCHANGED othervars

\* the handler after every task of QueryPeers has finished: success, AddToCache, reply
HandleQueryData_End(c) ==
    /\ call[c].pc = "wait"
    /\ \A q \in Children(tasks[c], <<call[c].node>>) : tasks[c][q].status = "finished"
    /\ LET request == call[c].request
           response == [call[c].response EXCEPT !.success = TRUE,
                                                !.processing_time = now - call[c].start_time]
           cleaned == CleanCache(query_cache_, cache_ttl_seconds_, now)
       IN  /\ query_cache_' = AddToCache(query_cache_, cache_size_, cache_ttl_seconds_,
                                         request.query_id, response, now)
           /\ call' = [call EXCEPT ![c].pc = "done", ![c].response = response,
                                   ![c].fanout_start = 0,
                                   ![c].callback = Append(@, "OK")]
           /\ history' =
                [history EXCEPT
                    !.written = IF request.query_type = "write"
                                THEN <<request.key, request.string_param>> ELSE @,
                    !.fresh = [q \in QueryIds |->
                        IF q = request.query_id
                        THEN <<[results |-> response.results, time |-> now, inserts |-> 0,
                                shadowed |-> CacheMatches(cleaned, q, cache_ttl_seconds_, now) # {}]>>
                        ELSE IF @[q] = <<>> THEN <<>>
                        ELSE <<[@[q][1] EXCEPT !.inserts = @ + 1]>>]]
    /\ UNCHANGED <<config_, data_map_, now, tasks, ncalls>>
    /\ UNCHANGED othervars

\* a catch branch that reports the exception as a transport error
HandleQueryData_Throw_Internal(c) ==
    /\ call[c].pc = "local"
    /\ call' = [call EXCEPT ![c].pc = "done",
                            ![c].response.success = FALSE,
                            ![c].response.error_message = "Exception: std::bad_alloc",
                            ![c].thrown = Append(@, "std::bad_alloc"),
                            ![c].callback = Append(@, "INTERNAL")]
    /\ UNCHANGED <<config_, data_map_, query_cache_, now, tasks, ncalls, history>>
    /\ UNCHANGED othervars

\* an exception escapes QueryLocalData (std::bad_alloc while the results grow):
\* the catch branch replies in band
HandleQueryData_Throw(c) ==
    /\ call[c].pc = "local"
    /\ call' = [call EXCEPT ![c].pc = "done",
                            ![c].response.success = FALSE,
                            ![c].response.error_message = "Exception: std::bad_alloc",
                            ![c].thrown = Append(@, "std::bad_alloc"),
                            ![c].callback = Append(@, "OK")]
    /\ UNCHANGED <<config_, data_map_, query_cache_, now, tasks, ncalls, history>>
    /\ UNCHANGED othervars

\* an exception escapes CheckCache (std::bad_alloc in the copy of the cached
\* response, after the sweep): the catch branch replies in band
HandleQueryData_Throw_CheckCache(c, n, request) ==
    /\ call[c].pc \in {"idle", "done"}
    /\ is_portal_(n)
    /\ LET cleaned == CleanCache(query_cache_, cache_ttl_seconds_, now)
       IN  /\ CheckCache(cleaned, request.query_id, cache_ttl_seconds_, now) # 0
           /\ query_cache_' = cleaned
    /\ call' = [call EXCEPT ![c] =
           [NoCall EXCEPT !.pc = "done", !.node = n, !.request = request,
                          !.start_time = now,
                          !.thrown = <<"std::bad_alloc">>,
                          !.callback = <<"OK">>,
                          !.response = [NoResponse EXCEPT
                              !.query_id = request.query_id,
                              !.timestamp = now,
                              !.success = FALSE,
                              !.error_message = "Exception: std::bad_alloc"]]]
    /\ tasks' = [tasks EXCEPT ![c] = NoTasks]
    /\ ncalls' = ncalls + 1
    /\ history' = [history EXCEPT !.asked[request.query_id] = @ \cup {QueryOf(request)}]
    /\ UNCHANGED <<config_, data_map_, now>>
    /\ UNCHANGED othervars

\* QueryLocalData, then an exception inside QueryPeers (the std::system_error of
\* a std::async that cannot start its thread) after the tasks of some of the targets have been
\* launched: the catch branch of QueryPeers logs it, the futures' destructors
\* wait for the launched tasks, and the handler goes on
QueryPeers_Throw(c) ==
    /\ call[c].pc = "local"
    /\ now - call[c].start_time < QueryTimeout
    /\ LET n == call[c].node
           request == call[c].request
           local == QueryLocalData(n, data_range_(n), data_map_[n], request, now)
       IN  \E launched \in SUBSET QueryTargets(n, request) :
             /\ data_map_' = [data_map_ EXCEPT ![n] = local.map]
             /\ call' = [call EXCEPT ![c].pc = "wait",
                                     ![c].response.results = local.results,
                                     ![c].thrown = Append(@, "Resource temporarily unavailable"),
                                     ![c].fanout_start = now]
             /\ tasks' = [tasks EXCEPT ![c] =
                    Launch(<<n>>, launched, PortalDataRequest(n, request))]
             /\ history' = IF request.query_type = "write" /\ LocalInRange(data_range_(n), request)
                           THEN [history EXCEPT !.put = <<request.key, request.string_param>>]
                           ELSE history
    /\ UNCHANGED <<config_, query_cache_, now, ncalls>>
    /\ UNCHANGED othervars

(***************************************************************************)
(* HandleGatherData and the peer tasks.                                    *)
(***************************************************************************)
\* the DataRequest node m would emit for an 'all' query, with the given
\* forward_to_peers and hop_count
DataRequestOf(m, q, forward, hops) ==
    [PortalDataRequest(m, AllRequest(q, "")) EXCEPT !.forward_to_peers = forward,
                                                    !.hop_count = hops]

\* GatherData is invoked on node n by a caller outside the fan-out of a QueryData
HandleGatherData_Direct(c, n, request) ==
    /\ call[c].pc \in {"idle", "done"}
    /\ call' = [call EXCEPT ![c] = [NoCall EXCEPT !.pc = "gather", !.node = n]]
    /\ tasks' = [tasks EXCEPT ![c] = Launch(<<>>, {n}, request)]
    /\ ncalls' = ncalls + 1
    /\ UNCHANGED <<config_, data_map_, query_cache_, now, history>>
    /\ UNCHANGED othervars

\* an exception escapes the try block (std::bad_alloc before the first item is
\* added, or in the copy of the request made after the last one): the catch
\* branch replies in band, with what the response holds by then
HandleGatherData_Throw(c, path) ==
    /\ path \in DOMAIN tasks[c]
    /\ tasks[c][path].status = "sent"
    /\ \E items \in {<<>>, ProcessForwardedRequest(data_range_(Last(path)), data_map_[Last(path)],
                                                   tasks[c][path].request)} :
         tasks' = [tasks EXCEPT
           ![c][path].status = "replied",
           ![c][path].callback = Append(@, "OK"),
           ![c][path].thrown = Append(@, "std::bad_alloc"),
           ![c][path].response =
               [NoDataResponse EXCEPT
                   !.request_id = tasks[c][path].request.request_id,
                   !.responder_id = Last(path),
                   !.route_path = Append(tasks[c][path].request.route_path, Last(path)),
                   !.contributing_nodes = <<Last(path)>>,
                   !.data_items = items,
                   !.success = FALSE,
                   !.error_message = "Exception: std::bad_alloc"]]
    /\ UNCHANGED <<config_, data_map_, query_cache_, now, call, ncalls, history>>
    /\ UNCHANGED othervars

\* a handler that still forwards when the advanced hop count equals max_hops
HandleGatherData_Begin_HopOff(c, path) ==
    /\ path \in DOMAIN tasks[c]
    /\ tasks[c][path].status = "sent"
    /\ LET n == Last(path)
           request == tasks[c][path].request
           fwd == ForwardedRequest(n, request)
           targets == IF request.forward_to_peers /\ fwd.hop_count <= fwd.max_hops
                      THEN ForwardTargets(n, fwd) ELSE {}
           response == [NoDataResponse EXCEPT
                           !.request_id = request.request_id,
                           !.responder_id = n,
                           !.route_path = Append(request.route_path, n),
                           !.contributing_nodes = <<n>>,
                           !.data_items = ProcessForwardedRequest(data_range_(n), data_map_[n], request)]
       IN  tasks' = [tasks EXCEPT ![c] =
               Launch(path, targets, fwd)
               @@ [@ EXCEPT ![path].status = "gathering", ![path].response = response]]
    /\ UNCHANGED <<config_, data_map_, query_cache_, now, call, ncalls, history>>
    /\ UNCHANGED othervars

\* the peer at the end of path receives the request: local processing, then
\* ForwardRequestToPeers up to the launch of its tasks
HandleGatherData_Begin(c, path) ==
    /\ path \in DOMAIN tasks[c]
    /\ tasks[c][path].status = "sent"
    /\ LET n == Last(path)
           request == tasks[c][path].request
           fwd == ForwardedRequest(n, request)
           targets == IF request.forward_to_peers /\ fwd.hop_count < fwd.max_hops
                      THEN ForwardTargets(n, fwd) ELSE {}
           response == [NoDataResponse EXCEPT
                           !.request_id = request.request_id,
                           !.responder_id = n,
                           !.route_path = Append(request.route_path, n),
                           !.contributing_nodes = <<n>>,
                           !.data_items = ProcessForwardedRequest(data_range_(n), data_map_[n], request)]
       IN  tasks' = [tasks EXCEPT ![c] =
               Launch(path, targets, fwd)
               @@ [@ EXCEPT ![path].status = "gathering", ![path].response = response]]
    /\ UNCHANGED <<config_, data_map_, query_cache_, now, call, ncalls, history>>
    /\ UNCHANGED othervars

\* local processing, then an exception inside ForwardRequestToPeers after the
\* tasks of some of the targets have been launched: its catch branch logs it and
\* the handler goes on
ForwardRequestToPeers_Throw(c, path) ==
    /\ path \in DOMAIN tasks[c]
    /\ tasks[c][path].status = "sent"
    /\ LET n == Last(path)
           request == tasks[c][path].request
           fwd == ForwardedRequest(n, request)
           response == [NoDataResponse EXCEPT
                           !.request_id = request.request_id,
                           !.responder_id = n,
                           !.route_path = Append(request.route_path, n),
                           !.contributing_nodes = <<n>>,
                           !.data_items = ProcessForwardedRequest(data_range_(n), data_map_[n], request)]
       IN  /\ request.forward_to_peers /\ fwd.hop_count < fwd.max_hops
           /\ \E launched \in SUBSET ForwardTargets(n, fwd) :
                 /\ tasks' = [tasks EXCEPT ![c] =
                        Launch(path, launched, fwd)
                        @@ [@ EXCEPT ![path].status = "gathering",
                                     ![path].thrown = Append(@, "Resource temporarily unavailable"),
                                     ![path].response = response]]
    /\ UNCHANGED <<config_, data_map_, query_cache_, now, call, ncalls, history>>
    /\ UNCHANGED othervars

\* the peer's handler after every task of ForwardRequestToPeers has finished
HandleGatherData_End(c, path) ==
    /\ path \in DOMAIN tasks[c]
    /\ tasks[c][path].status = "gathering"
    /\ \A q \in Children(tasks[c], path) : tasks[c][q].status = "finished"
    /\ tasks' = [tasks EXCEPT ![c][path].status = "replied",
                              ![c][path].response.success = TRUE,
                              ![c][path].callback = Append(@, "OK")]
    /\ UNCHANGED <<config_, data_map_, query_cache_, now, call, ncalls, history>>
    /\ UNCHANGED othervars

\* a task that puts the items of its reply in front of what the caller holds
PeerTask_Merge_InFront(c, path) ==
    /\ path \in DOMAIN tasks[c]
    /\ tasks[c][path].status = "replied"
    /\ tasks[c][path].response.success
    /\ LET peer_response == tasks[c][path].response
           parent == Front(path)
       IN  IF parent \notin DOMAIN tasks[c]
           THEN \* QueryPeers: data items only
                /\ call[c].pc = "wait"
                /\ call' = [call EXCEPT
                       ![c].response.results = peer_response.data_items \o @,
                       ![c].late = @ \/ (peer_response.data_items # <<>>
                                          /\ now - call[c].fanout_start >= FanOutTimeout)]
                /\ tasks' = [tasks EXCEPT ![c][path].status = "finished"]
           ELSE \* ForwardRequestToPeers: data items and contributing nodes
                /\ tasks' = [tasks EXCEPT
                       ![c][path].status = "finished",
                       ![c][parent].response.data_items = peer_response.data_items \o @,
                       ![c][parent].response.contributing_nodes =
                           @ \o peer_response.contributing_nodes]
                /\ UNCHANGED call
    /\ UNCHANGED <<config_, data_map_, query_cache_, now, ncalls, history>>
    /\ UNCHANGED othervars

\* a task receives an OK reply with success = true and appends it to the
\* caller's response under response_mutex
PeerTask_Merge(c, path) ==
    /\ path \in DOMAIN tasks[c]
    /\ tasks[c][path].status = "replied"
    /\ tasks[c][path].response.success
    /\ LET peer_response == tasks[c][path].response
           parent == Front(path)
       IN  IF parent \notin DOMAIN tasks[c]
           THEN \* QueryPeers: data items only
                /\ call[c].pc = "wait"
                /\ call' = [call EXCEPT
                       ![c].response.results = @ \o peer_response.data_items,
                       ![c].late = @ \/ (peer_response.data_items # <<>>
                                          /\ now - call[c].fanout_start >= FanOutTimeout)]
                /\ tasks' = [tasks EXCEPT ![c][path].status = "finished"]
           ELSE \* ForwardRequestToPeers: data items and contributing nodes
                /\ tasks' = [tasks EXCEPT
                       ![c][path].status = "finished",
                       ![c][parent].response.data_items = @ \o peer_response.data_items,
                       ![c][parent].response.contributing_nodes =
                           @ \o peer_response.contributing_nodes]
                /\ UNCHANGED call
    /\ UNCHANGED <<config_, data_map_, query_cache_, now, ncalls, history>>
    /\ UNCHANGED othervars

\* a failed task that also throws away what the caller has collected so far
PeerTask_Fail_DropsResults(c, path) ==
    /\ path \in DOMAIN tasks[c]
    /\ tasks[c][path].status \in {"sent", "replied"}
    /\ tasks' = [tasks EXCEPT ![c][path].status = "finished"]
    /\ call' = [call EXCEPT ![c].lossy = TRUE, ![c].response.results = <<>>]
    /\ UNCHANGED <<config_, data_map_, query_cache_, now, ncalls, history>>
    /\ UNCHANGED othervars

\* a failed task that appends what the reply holds all the same
PeerTask_Fail_KeepsItems(c, path) ==
    /\ path \in DOMAIN tasks[c]
    /\ tasks[c][path].status \in {"sent", "replied"}
    /\ LET peer_response == tasks[c][path].response
           parent == Front(path)
       IN  IF parent \notin DOMAIN tasks[c]
           THEN /\ tasks' = [tasks EXCEPT ![c][path].status = "finished"]
                /\ call' = [call EXCEPT ![c].lossy = TRUE,
                                        ![c].response.results = @ \o peer_response.data_items]
           ELSE /\ tasks' = [tasks EXCEPT
                       ![c][path].status = "finished",
                       ![c][parent].response.data_items = @ \o peer_response.data_items,
                       ![c][parent].response.contributing_nodes =
                           @ \o peer_response.contributing_nodes]
                /\ call' = [call EXCEPT ![c].lossy = TRUE]
    /\ UNCHANGED <<config_, data_map_, query_cache_, now, ncalls, history>>
    /\ UNCHANGED othervars

\* a task ends without a usable reply: peer unreachable, or the reply misses the
\* 5 second deadline of the call
PeerTask_Fail(c, path) ==
    /\ path \in DOMAIN tasks[c]
    /\ tasks[c][path].status \in {"sent", "replied"}
    /\ tasks' = [tasks EXCEPT ![c][path].status = "finished"]
    /\ call' = [call EXCEPT ![c].lossy = TRUE]
    /\ UNCHANGED <<config_, data_map_, query_cache_, now, ncalls, history>>
    /\ UNCHANGED othervars

\* system_clock advances; the peer tasks never read the clock, so time is let
\* pass only between their steps
Tick ==
    /\ now < StartTime + MaxTicks * MsPerTick
    /\ \A c \in Clients : \A p \in DOMAIN tasks[c] : tasks[c][p].status = "finished"
    /\ now' = now + MsPerTick
    /\ UNCHANGED <<config_, data_map_, query_cache_, call, tasks, ncalls, history>>
    /\ UNCHANGED othervars

\* system_clock advances while a QueryPeers waits for its futures; a GatherData
\* call that is still open RpcDeadline after its start ends with DEADLINE_EXCEEDED
Elapse ==
    /\ \E c \in Clients : /\ call[c].pc = "wait"
                          /\ \E p \in DOMAIN tasks[c] : tasks[c][p].status # "finished"
    /\ \A c \in Clients : call[c].pc = "wait" => now - call[c].fanout_start < RpcDeadline
    /\ now' = now + MsPerTick
    /\ UNCHANGED <<config_, data_map_, query_cache_, call, tasks, ncalls, history>>
    /\ UNCHANGED othervars

\* the GatherData call of a task is within its deadline
InTime(c) == now - call[c].fanout_start < RpcDeadline

(***************************************************************************)
(* Steps of a set of clients.                                              *)
(***************************************************************************)
QueryDataBegin(C, N, Reqs) ==
    \E c \in C, n \in N, request \in Reqs :
        request.client_id = c /\ HandleQueryData_Begin(c, n, request)
QueryDataLocal(C) == \E c \in C : HandleQueryData_Local(c)
QueryDataEnd(C) == \E c \in C : HandleQueryData_End(c)
GatherDataBegin(C) == \E c \in C : \E path \in DOMAIN tasks[c] : HandleGatherData_Begin(c, path)
GatherDataEnd(C) == \E c \in C : \E path \in DOMAIN tasks[c] : HandleGatherData_End(c, path)
PeerTaskMerge(C) == \E c \in C : \E path \in DOMAIN tasks[c] : PeerTask_Merge(c, path)
PeerTaskFail(C) == \E c \in C : \E path \in DOMAIN tasks[c] : PeerTask_Fail(c, path)
QueryDataThrow(C) == \E c \in C : HandleQueryData_Throw(c)
GatherDataThrow(C) == \E c \in C : \E path \in DOMAIN tasks[c] : HandleGatherData_Throw(c, path)
GatherDataDirect(C, N, Reqs) ==
    \E c \in C, n \in N, request \in Reqs : HandleGatherData_Direct(c, n, request)

(***************************************************************************)
(* The end-to-end scenarios on the reference topology: one client, every   *)
(* node up, every call with a query id of its own.                         *)
(***************************************************************************)
RefClient == "c1"

\* first call: an exact query of any key, the range query of S3, the all query
\* of S4 or a write; second call: an exact query after a write
RefRequests ==
    IF ncalls = 0 THEN
        {ExactRequest("q1", RefClient, k) : k \in AllKeys(RefTopology)}
        \cup {RangeRequest("q1", RefClient, 95, 205)}
        \cup {AllRequest("q1", RefClient)}
        \cup {WriteRequest("q1", RefClient, k, "hello") : k \in {42, 175}}
    ELSE IF ncalls = 1 /\ history.written # <<>> THEN
        {ExactRequest("q2", RefClient, k) : k \in AllKeys(RefTopology)}
    ELSE {}

InitRef == Construct(RefTopology)

RefQueryDataBegin == QueryDataBegin({RefClient}, {config_.portal}, RefRequests)
RefQueryDataLocal == QueryDataLocal({RefClient})
RefQueryDataEnd == QueryDataEnd({RefClient})
RefGatherDataBegin == GatherDataBegin({RefClient})
RefGatherDataEnd == GatherDataEnd({RefClient})
RefPeerTaskMerge == PeerTaskMerge({RefClient})

NextRef ==
    \/ RefQueryDataBegin
    \/ RefQueryDataLocal
    \/ RefQueryDataEnd
    \/ RefGatherDataBegin
    \/ RefGatherDataEnd
    \/ RefPeerTaskMerge

SpecRef == InitRef /\ [][NextRef]_vars

\* keys of a list of items
KeysOf(items) == {items[i].key : i \in 1..Len(items)}

\* a call that went through the whole handler with every peer answering
Uncached(c) ==
    /\ call[c].pc = "done"
    /\ is_portal_(call[c].node)
    /\ call[c].response.success
    /\ ~call[c].response.from_cache

\* a call at the portal that has replied
Replied(c) == call[c].pc = "done" /\ is_portal_(call[c].node)

(***************************************************************************)
(* Properties of the end-to-end scenarios.                                 *)
(***************************************************************************)
\* C3 (as claimed): on the reference topology an uncached 'all' query with every
\* node up returns exactly 300 items
C3_AllReturns300 ==
    \A c \in Clients :
        Uncached(c) /\ call[c].request.query_type = "all" /\ ~call[c].lossy
            => Len(call[c].response.results) = 300

\* C4 (as claimed): on the reference topology the uncached range query [95, 205]
\* returns exactly 116 items whose keys are exactly 95..205
C4_RangeReturns116 ==
    \A c \in Clients :
        Uncached(c) /\ call[c].request.query_type = "range" /\ ~call[c].lossy
            => /\ Len(call[c].response.results) = 116
               /\ KeysOf(call[c].response.results)
                      = call[c].request.range_start..call[c].request.range_end

\* C5: on the reference topology an exact query of any key k of 1..300 with an
\* unused query id replies with exactly one item, whose key is k and whose source
\* node is the owner of k, and with from_cache = false
C5_ExactReturnsOwnerItem ==
    \A c \in Clients :
        Replied(c) /\ call[c].request.query_type = "exact"
            => /\ call[c].response.success
               /\ ~call[c].response.from_cache
               /\ Len(call[c].response.results) = 1
               /\ call[c].response.results[1].key = call[c].request.key
               /\ call[c].response.results[1].source_node \in Owner(config_, call[c].request.key)

\* C5 witness: an exact query of a key owned by peer B has replied
C5_Witness ==
    /\ Replied(RefClient)
    /\ call[RefClient].request.query_type = "exact"
    /\ call[RefClient].request.key = 175
    /\ history.written = <<>>
    /\ Len(call[RefClient].response.results) = 1

\* C7: the write of "hello" to key 42 replies with exactly one item (key 42,
\* string value "hello", source node A), and an exact read of key 42 under a new
\* query id after that reply returns that value
C7_WriteThenReadAtPortal ==
    \A c \in Clients :
        /\ Replied(c) /\ call[c].request.query_type = "write" /\ call[c].request.key = 42
            => /\ Len(call[c].response.results) = 1
               /\ call[c].response.results[1].key = 42
               /\ call[c].response.results[1].variant = "string_value"
               /\ call[c].response.results[1].string_value = call[c].request.string_param
               /\ call[c].response.results[1].source_node = "A"
        /\ Replied(c) /\ call[c].request.query_type = "exact" /\ call[c].request.key = 42
           /\ call[c].expect # ""
            => /\ Len(call[c].response.results) = 1
               /\ call[c].response.results[1].variant = "string_value"
               /\ call[c].response.results[1].string_value = call[c].expect

\* C7 witness: the read of key 42 that follows the write of "hello" has replied
C7_Witness ==
    /\ Replied(RefClient)
    /\ call[RefClient].request.query_type = "exact"
    /\ call[RefClient].request.key = 42
    /\ call[RefClient].request.query_id = "q2"
    /\ call[RefClient].expect = "hello"
    /\ history.written = <<42, "hello">>

(***************************************************************************)
(* One client, no failures, over every peer graph of three nodes and a     *)
(* chain of five: a first call of any kind, then a read.                   *)
(***************************************************************************)
Topologies ==
    {SmallTopology(3, g, 1) : g \in LoopFree(3)} \cup {ChainTopology}

KeyPairs(cfg) == {ab \in AllKeys(cfg) \X AllKeys(cfg) : ab[1] <= ab[2]}

TopoClient == "c1"

TopoRequests ==
    IF ncalls = 0 THEN
        {ExactRequest("q1", TopoClient, k) : k \in AllKeys(config_)}
        \cup {RangeRequest("q1", TopoClient, ab[1], ab[2]) : ab \in KeyPairs(config_)}
        \cup {AllRequest("q1", TopoClient)}
        \cup {WriteRequest("q1", TopoClient, k, "v1") : k \in AllKeys(config_)}
    ELSE IF ncalls = 1 THEN
        {ExactRequest(q, TopoClient, k) : q \in QueryIds, k \in AllKeys(config_)}
        \cup {RangeRequest("q1", TopoClient, k, k + 1) : k \in AllKeys(config_)}
    ELSE {}

InitTopo == \E cfg \in Topologies : Construct(cfg)

TopoQueryDataBegin == QueryDataBegin({TopoClient}, {config_.portal}, TopoRequests)
TopoQueryDataLocal == QueryDataLocal({TopoClient})
TopoQueryDataEnd == QueryDataEnd({TopoClient})
TopoGatherDataBegin == GatherDataBegin({TopoClient})
TopoGatherDataEnd == GatherDataEnd({TopoClient})
TopoPeerTaskMerge == PeerTaskMerge({TopoClient})

NextTopo ==
    \/ TopoQueryDataBegin
    \/ TopoQueryDataLocal
    \/ TopoQueryDataEnd
    \/ TopoGatherDataBegin
    \/ TopoGatherDataEnd
    \/ TopoPeerTaskMerge

SpecTopo == InitTopo /\ [][NextTopo]_vars

(***************************************************************************)
(* Routing properties.                                                     *)
(***************************************************************************)
\* every item lies in the key set the request asks for
Sound(request, items) ==
    /\ request.query_type = "exact"
        => \A i \in 1..Len(items) : items[i].key = request.key
    /\ request.query_type = "range"
        => \A i \in 1..Len(items) :
              request.range_start <= items[i].key /\ items[i].key <= request.range_end

\* C1 (as claimed): whatever the query ids of the earlier calls, an exact query
\* of k returns only items of key k and a range query of [a, b] only items with
\* a <= key <= b
C1_SoundWhateverIds ==
    \A c \in Clients :
        Replied(c) /\ call[c].response.success
            => Sound(call[c].request, call[c].response.results)

\* C1 (amended): the same, provided the query id of the call has not been used
\* for a different query before (the cache matches on the query id alone)
C1_SoundUnlessIdReused ==
    \A c \in Clients :
        Replied(c) /\ call[c].response.success
        /\ history.asked[call[c].request.query_id] = {QueryOf(call[c].request)}
            => Sound(call[c].request, call[c].response.results)

\* C1 witness: a range query over keys of two nodes has replied with items of both
C1_Witness ==
    /\ Replied(TopoClient)
    /\ call[TopoClient].request.query_type = "range"
    /\ call[TopoClient].request.range_start = KeysPerNode
    /\ call[TopoClient].request.range_end = KeysPerNode + 1
    /\ KeysOf(call[TopoClient].response.results) = {KeysPerNode, KeysPerNode + 1}
    /\ history.asked["q1"] = {QueryOf(call[TopoClient].request)}

\* the nodes within d hops of the portal along connects_to
RECURSIVE Within(_, _)
Within(cfg, d) ==
    IF d = 0 THEN {cfg.portal}
    ELSE LET near == Within(cfg, d - 1)
         IN  near \cup {p \in cfg.nodes : \E n \in near : p \in cfg.connects_to[n]}

KeysOfNodes(cfg, N) == UNION {cfg.data_range[n][1]..cfg.data_range[n][2] : n \in N}

StoredString(n, k) ==
    IF k \in DOMAIN data_map_[n] /\ "string_value" \in DOMAIN data_map_[n][k]
    THEN data_map_[n][k].string_value ELSE ""

\* C6 (as claimed): for a key k owned by the portal or by one of its peers, an
\* exact read of k under a query id never used before, issued after a write of v
\* to k has replied, returns an item of k with string value v
C6_ReadYourWrites ==
    \A c \in Clients :
        Replied(c) /\ call[c].request.query_type = "exact"
        /\ call[c].first_use /\ call[c].expect # ""
        /\ Owner(config_, call[c].request.key) \subseteq {call[c].node} \cup peers_(call[c].node)
            => \E i \in 1..Len(call[c].response.results) :
                  /\ call[c].response.results[i].key = call[c].request.key
                  /\ call[c].response.results[i].variant = "string_value"
                  /\ call[c].response.results[i].string_value = call[c].expect

\* C8 (as claimed): after a write query that the portal fanned out to the owner
\* of the key has replied, the owner stores the written value and the map of
\* every other node is what it was before
C8_WriteAppliedByOwnerOnly ==
    \A c \in Clients :
        Uncached(c) /\ call[c].request.query_type = "write" /\ ~call[c].lossy
        /\ Owner(config_, call[c].request.key) \subseteq peers_(call[c].node)
            => /\ \A n \in Owner(config_, call[c].request.key) :
                      StoredString(n, call[c].request.key) = call[c].request.string_param
               /\ \A n \in config_.nodes \ Owner(config_, call[c].request.key) :
                      data_map_[n] = call[c].pre_map[1][n]

(***************************************************************************)
(* Two concurrent clients of a portal with one peer: the clock advances,   *)
(* peer calls may fail, the cache holds one or more entries.               *)
(***************************************************************************)
ValueOf(c) == IF c = "c1" THEN "v1" ELSE "v2"

\* a key of the portal and a key of its peer
PortalKey == 1
PeerKey == KeysPerNode + 1

\* c1 reads a key of the peer; c2 reads a key of the portal under the same id
\* and writes it under the other id
Requests ==
    { ExactRequest("q1", "c1", PeerKey),
      ExactRequest("q1", "c2", PortalKey),
      WriteRequest("q2", "c2", PortalKey, ValueOf("c2")) }

Init == \E size \in 1..MaxCacheSize : Construct(PairTopology(size))

ClientQueryDataBegin ==
    ncalls < MaxCalls /\ QueryDataBegin(Clients, {config_.portal}, Requests)
ClientQueryDataLocal == QueryDataLocal(Clients)
ClientQueryDataEnd == QueryDataEnd(Clients)
ClientGatherDataBegin == GatherDataBegin(Clients)
ClientGatherDataEnd == GatherDataEnd(Clients)
ClientPeerTaskMerge == PeerTaskMerge(Clients)
ClientPeerTaskFail == PeerTaskFail(Clients)

Next ==
    \/ ClientQueryDataBegin
    \/ ClientQueryDataLocal
    \/ ClientQueryDataEnd
    \/ ClientGatherDataBegin
    \/ ClientGatherDataEnd
    \/ ClientPeerTaskMerge
    \/ ClientPeerTaskFail
    \/ Tick

Spec == Init /\ [][Next]_vars

(***************************************************************************)
(* Two clients, each writing its own value once, on the three-node mesh.   *)
(***************************************************************************)
WriteRequests ==
    {WriteRequest("q1", "c1", k, ValueOf("c1")) : k \in AllKeys(config_)}
    \cup {WriteRequest("q2", "c2", k, ValueOf("c2")) : k \in AllKeys(config_)}

InitWrite == Construct(MeshTopology(MaxCacheSize))

WriteQueryDataBegin ==
    \E c \in Clients :
        call[c].pc = "idle" /\ QueryDataBegin({c}, {config_.portal}, WriteRequests)

NextWrite ==
    \/ WriteQueryDataBegin
    \/ ClientQueryDataLocal
    \/ ClientQueryDataEnd
    \/ ClientGatherDataBegin
    \/ ClientGatherDataEnd
    \/ ClientPeerTaskMerge

SpecWrite == InitWrite /\ [][NextWrite]_vars

\* both clients have a reply to a write of the same key
BothWrote(k) ==
    \A c \in Clients :
        /\ Uncached(c) /\ ~call[c].lossy
        /\ call[c].request.query_type = "write" /\ call[c].request.key = k

\* the reply of c carries the value c wrote
CarriesOwnValue(c) ==
    \E i \in 1..Len(call[c].response.results) :
        /\ call[c].response.results[i].key = call[c].request.key
        /\ call[c].response.results[i].string_value = call[c].request.string_param

\* C9 (as claimed): after two concurrent writes of the same key have replied, the
\* owner stores the value of the put that executed last, and the reply of each
\* write carries the value it wrote
C9_LastWriterWins ==
    \A k \in AllKeys(config_) :
        BothWrote(k)
            => /\ history.put # <<>>
               /\ \A n \in Owner(config_, k) : StoredString(n, k) = history.put[2]
               /\ \A c \in Clients : CarriesOwnValue(c)

(***************************************************************************)
(* Cache properties.                                                       *)
(***************************************************************************)
\* the call of c was issued within the TTL of the last uncached reply to its id
WithinTtlOfPrior(c) ==
    /\ call[c].pc # "idle"
    /\ is_portal_(call[c].node)
    /\ call[c].prior # <<>>
    /\ call[c].start_time - call[c].prior[1].time <= cache_ttl_seconds_ * MsPerSecond

\* the call of c was answered from the cache with the results of that reply
AnsweredFromPrior(c) ==
    /\ call[c].pc = "done"
    /\ call[c].response.from_cache
    /\ call[c].response.results = call[c].prior[1].results

\* C10 (as claimed): a call with the query id of a prior successful call, issued
\* within cache_ttl_seconds of it, returns from_cache = true and the results of
\* that call, whatever other calls happened in between
C10_HitWhateverBetween ==
    \A c \in Clients : WithinTtlOfPrior(c) => AnsweredFromPrior(c)

\* C10 (amended): the same for a prior uncached call, provided fewer than
\* cache_size responses were inserted into the cache in between (FIFO eviction)
\* and the cache held no other live entry of that id when the prior response was
\* inserted (an overlapping call of the same id)
C10_HitUnlessEvicted ==
    \A c \in Clients :
        WithinTtlOfPrior(c)
        /\ call[c].prior[1].inserts < cache_size_
        /\ ~call[c].prior[1].shadowed
            => AnsweredFromPrior(c)

\* C10 witness: a call was answered from the cache with the results of the prior
\* call of its id although another response was inserted in between
C10_Witness ==
    \E c \in Clients :
        /\ WithinTtlOfPrior(c)
        /\ call[c].prior[1].inserts = 1
        /\ ~call[c].prior[1].shadowed
        /\ AnsweredFromPrior(c)
        /\ Len(call[c].response.results) = 1

(***************************************************************************)
(* Cache bound.                                                            *)
(***************************************************************************)
\* C11: under every interleaving of concurrent QueryData calls and for every
\* positive cache_size, the query cache of the portal never holds more than
\* cache_size entries
C11_CacheBound == Len(query_cache_) <= cache_size_

\* C11 witness: the cache is full after an insertion that had to evict: an entry
\* still within its TTL has seen cache_size or more insertions after its own
C11_Witness ==
    /\ Len(query_cache_) = cache_size_
    /\ \E q \in QueryIds :
          /\ history.fresh[q] # <<>>
          /\ history.fresh[q][1].inserts >= cache_size_
          /\ now - history.fresh[q][1].time < MsPerSecond

(***************************************************************************)
(* One client, one call, no failures, over every peer graph of three       *)
(* nodes, self loops included, and the chain of five: a QueryData at the   *)
(* portal, or a GatherData sent to any node.                               *)
(***************************************************************************)
GraphTopologies ==
    {SmallTopology(3, g, 1) : g \in AllGraphs(3)} \cup {ChainTopology}

GraphClient == "c1"

\* an exact query of any key, a range over the keys of two nodes, an 'all'
\* query, a write
GraphRequests ==
    IF ncalls = 0 THEN
        {ExactRequest("q1", GraphClient, k) : k \in AllKeys(config_)}
        \cup {RangeRequest("q1", GraphClient, KeysPerNode, KeysPerNode + 1)}
        \cup {AllRequest("q1", GraphClient)}
        \cup {WriteRequest("q1", GraphClient, PortalKey, "v1")}
    ELSE {}

\* GatherData requests as the portal would emit them, with either value of
\* forward_to_peers and every hop count below max_hops
GraphDataRequests ==
    IF ncalls = 0 THEN
        {DataRequestOf(config_.portal, "q1", forward, hops) :
            forward \in BOOLEAN, hops \in 0..(MaxHops - 1)}
    ELSE {}

InitGraph == \E cfg \in GraphTopologies : Construct(cfg)

GraphQueryDataBegin == QueryDataBegin({GraphClient}, {config_.portal}, GraphRequests)
GraphQueryDataLocal == QueryDataLocal({GraphClient})
GraphQueryDataEnd == QueryDataEnd({GraphClient})
GraphGatherDataDirect ==
    GatherDataDirect({GraphClient}, config_.nodes \ {config_.portal}, GraphDataRequests)
GraphGatherDataBegin == GatherDataBegin({GraphClient})
GraphGatherDataEnd == GatherDataEnd({GraphClient})
GraphPeerTaskMerge == PeerTaskMerge({GraphClient})

NextGraph ==
    \/ GraphQueryDataBegin
    \/ GraphQueryDataLocal
    \/ GraphQueryDataEnd
    \/ GraphGatherDataDirect
    \/ GraphGatherDataBegin
    \/ GraphGatherDataEnd
    \/ GraphPeerTaskMerge

SpecGraph == InitGraph /\ [][NextGraph]_vars

(***************************************************************************)
(* Properties of the fan-out.                                              *)
(***************************************************************************)
NoDuplicates(seq) == \A i, j \in 1..Len(seq) : i # j => seq[i] # seq[j]

\* the GatherData invocations of the fan-out of a QueryData of client c
FanOutOf(c) == {p \in DOMAIN tasks[c] : call[c].pc # "gather"}

\* the GatherData invocations that have run their local part
Handled(c) == {p \in DOMAIN tasks[c] : tasks[c][p].response.responder_id # ""}

\* C12 (as claimed): for every topology and query, no node id appears twice in
\* the route path of a GatherData chain started by one QueryData
C12_NoNodeTwiceOnRoute ==
    \A c \in Clients : \A p \in FanOutOf(c) \cap Handled(c) :
        NoDuplicates(tasks[c][p].response.route_path)

\* C13 (as claimed): neither QueryPeers nor ForwardRequestToPeers issues a
\* GatherData call to a peer that is in visited_nodes of the request it emits
C13_NoCallToVisited ==
    \A c \in Clients : \A p \in FanOutOf(c) :
        Last(p) \notin Range(tasks[c][p].request.visited_nodes)

\* C14: every DataRequest emitted by a node, by the portal at the first hop or by
\* a peer that forwards, has hop_count <= max_hops and its requester_id in
\* visited_nodes
C14_EmittedRequestWellFormed ==
    \A c \in Clients : \A p \in DOMAIN tasks[c] :
        Len(p) >= 2
            => /\ tasks[c][p].request.hop_count <= tasks[c][p].request.max_hops
               /\ tasks[c][p].request.requester_id
                      \in Range(tasks[c][p].request.visited_nodes)

\* C14 witness: on the chain, C has forwarded the request of the portal to D with
\* the largest hop count a request is emitted with
C14_Witness ==
    /\ config_ = ChainTopology
    /\ <<"A", "B", "C", "D">> \in DOMAIN tasks[GraphClient]
    /\ tasks[GraphClient][<<"A", "B", "C", "D">>].request.hop_count = MaxHops - 1
    /\ tasks[GraphClient][<<"A", "B", "C", "D">>].request.requester_id = "A"
    /\ tasks[GraphClient][<<"A", "B", "C", "D">>].request.visited_nodes = <<"A", "B", "C">>

\* the peers of n a request may be forwarded to: not n, not visited before,
\* and with a range the query can touch
Eligible(n, request) ==
    {q \in peers_(n) : /\ q # n
                       /\ q \notin Range(request.visited_nodes)
                       /\ ShouldForward(data_range_(q), request)}

\* C15: a node handling GatherData issues peer calls only if forward_to_peers is
\* true and hop_count + 1 < max_hops, and then to every eligible peer; in every
\* other case it issues no peer call and replies with its own local results only
C15_FanOutIffBelowHopLimit ==
    \A c \in Clients : \A p \in Handled(c) :
        LET n == Last(p)
            request == tasks[c][p].request
            response == tasks[c][p].response
        IN  IF request.forward_to_peers /\ request.hop_count + 1 < request.max_hops
            THEN Children(tasks[c], p) = {Append(p, q) : q \in Eligible(n, request)}
            ELSE /\ Children(tasks[c], p) = {}
                 /\ response.contributing_nodes = <<n>>
                 /\ response.data_items
                        = ProcessForwardedRequest(data_range_(n), data_map_[n], request)

\* C15 witness: on the chain D has replied to the request it received with hop
\* count max_hops - 1 without calling its peer E
C15_Witness ==
    /\ config_ = ChainTopology
    /\ <<"A", "B", "C", "D">> \in DOMAIN tasks[GraphClient]
    /\ tasks[GraphClient][<<"A", "B", "C", "D">>].status = "replied"
    /\ tasks[GraphClient][<<"A", "B", "C", "D">>].request.forward_to_peers
    /\ "E" \in peers_("D")
    /\ Children(tasks[GraphClient], <<"A", "B", "C", "D">>) = {}

\* the nodes whose range the query of a DataRequest can touch
Intersecting(request) ==
    {n \in config_.nodes :
        IF request.query_type \in {"exact", "write"}
        THEN request.key >= data_range_(n)[1] /\ request.key <= data_range_(n)[2]
        ELSE IF request.query_type = "range"
        THEN request.range_start <= data_range_(n)[2] /\ request.range_end >= data_range_(n)[1]
        ELSE TRUE}

\* C20 (as claimed): the contributing nodes of the response to a query are nodes
\* of the topology, contain the portal, and every listed node has a range that
\* intersects the query
C20_ContributingNodes ==
    \A c \in Clients : \A p \in FanOutOf(c) :
        Len(p) = 2 /\ tasks[c][p].status \in {"replied", "finished"}
        /\ tasks[c][p].response.success
            => /\ Range(tasks[c][p].response.contributing_nodes) \subseteq config_.nodes
               /\ config_.portal \in Range(tasks[c][p].response.contributing_nodes)
               /\ Range(tasks[c][p].response.contributing_nodes)
                      \subseteq Intersecting(tasks[c][p].request)

(***************************************************************************)
(* One client of the three-node mesh with slow peers: the clock advances   *)
(* while the fan-out is in flight, and a peer call ends with its reply or, *)
(* at its deadline, without one.                                           *)
(***************************************************************************)
SlowClient == "c1"

SlowRequests ==
    IF ncalls = 0 THEN
        {AllRequest("q1", SlowClient), ExactRequest("q1", SlowClient, PeerKey)}
    ELSE {}

InitSlow == Construct(MeshTopology(MaxCacheSize))

SlowQueryDataBegin == QueryDataBegin({SlowClient}, {config_.portal}, SlowRequests)
SlowQueryDataLocal == QueryDataLocal({SlowClient})
SlowQueryDataEnd == QueryDataEnd({SlowClient})
SlowGatherDataBegin == GatherDataBegin({SlowClient})
SlowGatherDataEnd == GatherDataEnd({SlowClient})
SlowPeerTaskMerge == InTime(SlowClient) /\ PeerTaskMerge({SlowClient})
SlowPeerTaskFail == ~InTime(SlowClient) /\ PeerTaskFail({SlowClient})

NextSlow ==
    \/ SlowQueryDataBegin
    \/ SlowQueryDataLocal
    \/ SlowQueryDataEnd
    \/ SlowGatherDataBegin
    \/ SlowGatherDataEnd
    \/ SlowPeerTaskMerge
    \/ SlowPeerTaskFail
    \/ Elapse

SpecSlow == InitSlow /\ [][NextSlow]_vars

\* C16 (as claimed): the response the handler returns holds no data item of a
\* peer task that finished after the fan-out deadline of 4 seconds had passed
C16_LateResultsDiscarded ==
    \A c \in Clients : Replied(c) => ~call[c].late

(***************************************************************************)
(* The reference topology with failing peers: a GatherData call may never  *)
(* be answered (peer down, deadline) or be answered with success = false.  *)
(***************************************************************************)
DownClient == "c1"

DownRequests ==
    IF ncalls = 0 THEN
        { AllRequest("q1", DownClient),
          RangeRequest("q1", DownClient, 95, 205),
          ExactRequest("q1", DownClient, 175) }
    ELSE {}

DownQueryDataBegin == QueryDataBegin({DownClient}, {config_.portal}, DownRequests)
DownQueryDataLocal == QueryDataLocal({DownClient})
DownQueryDataEnd == QueryDataEnd({DownClient})
DownGatherDataBegin == GatherDataBegin({DownClient})
DownGatherDataThrow == GatherDataThrow({DownClient})
DownGatherDataEnd == GatherDataEnd({DownClient})
DownPeerTaskMerge == PeerTaskMerge({DownClient})
DownPeerTaskFail ==
    \E path \in DOMAIN tasks[DownClient] :
        /\ tasks[DownClient][path].status = "sent" \/ ~tasks[DownClient][path].response.success
        /\ PeerTask_Fail(DownClient, path)

NextDown ==
    \/ DownQueryDataBegin
    \/ DownQueryDataLocal
    \/ DownQueryDataEnd
    \/ DownGatherDataBegin
    \/ DownGatherDataThrow
    \/ DownGatherDataEnd
    \/ DownPeerTaskMerge
    \/ DownPeerTaskFail

SpecDown == InitRef /\ [][NextDown]_vars

\* the first-hop tasks of the call of c whose peer answered with success = true
Answered(c) ==
    {p \in Children(tasks[c], <<call[c].node>>) : tasks[c][p].response.success}

\* the tasks of the call of c that ended without a usable reply
Failed(c) == {p \in DOMAIN tasks[c] : ~tasks[c][p].response.success}

\* C17: whatever subset of the peer calls fails, is never answered or is
\* answered with success = false, QueryData at the portal replies success = true
\* with no error message, and its results hold the local matches of the portal
\* and the items of every peer that answered successfully; on the reference
\* topology with exactly C failing, an 'all' query returns 200 items
C17_PeerFailuresNeverFailQuery ==
    \A c \in Clients :
        Replied(c)
            => /\ call[c].response.success
               /\ call[c].response.error_message = ""
               /\ Range(QueryLocalData(call[c].node, data_range_(call[c].node),
                                       data_map_[call[c].node], call[c].request, now).results)
                      \subseteq Range(call[c].response.results)
               /\ \A p \in Answered(c) :
                      Range(tasks[c][p].response.data_items)
                          \subseteq Range(call[c].response.results)
               /\ call[c].request.query_type = "all"
                  /\ Failed(c) = {p \in DOMAIN tasks[c] : Last(p) = "C"}
                      => Len(call[c].response.results) = 200

\* C17 witness: the 'all' query has replied although both calls to C, the one of
\* the portal and the one of B, failed
C17_Witness ==
    /\ Replied(DownClient)
    /\ call[DownClient].request.query_type = "all"
    /\ call[DownClient].lossy
    /\ Failed(DownClient) = {<<"A", "C">>, <<"A", "B", "C">>}
    /\ Len(call[DownClient].response.results) = 200

(***************************************************************************)
(* One client that sends QueryData and GatherData to either node of the    *)
(* pair, repeating query ids; handlers may throw.                          *)
(***************************************************************************)
ReplyClient == "c1"

\* every query type, under one query id
ReplyRequests ==
    { ExactRequest("q1", ReplyClient, PortalKey),
      RangeRequest("q1", ReplyClient, PortalKey, PeerKey),
      AllRequest("q1", ReplyClient),
      WriteRequest("q1", ReplyClient, PortalKey, "v1") }

ReplyDataRequests ==
    {DataRequestOf(config_.portal, "q2", forward, 0) : forward \in BOOLEAN}

InitReply == Construct(PairTopology(MaxCacheSize))

ReplyQueryDataBegin ==
    ncalls < MaxCalls /\ QueryDataBegin({ReplyClient}, config_.nodes, ReplyRequests)
ReplyQueryDataLocal == QueryDataLocal({ReplyClient})
ReplyQueryDataThrow == QueryDataThrow({ReplyClient})
ReplyQueryDataEnd == QueryDataEnd({ReplyClient})
ReplyGatherDataDirect ==
    ncalls < MaxCalls /\ GatherDataDirect({ReplyClient}, config_.nodes, ReplyDataRequests)
ReplyGatherDataBegin == GatherDataBegin({ReplyClient})
ReplyGatherDataThrow == GatherDataThrow({ReplyClient})
ReplyGatherDataEnd == GatherDataEnd({ReplyClient})
ReplyPeerTaskMerge == PeerTaskMerge({ReplyClient})
ReplyPeerTaskFail ==
    \E path \in DOMAIN tasks[ReplyClient] :
        /\ tasks[ReplyClient][path].status = "replied"
        /\ ~tasks[ReplyClient][path].response.success
        /\ PeerTask_Fail(ReplyClient, path)

NextReply ==
    \/ ReplyQueryDataBegin
    \/ ReplyQueryDataLocal
    \/ ReplyQueryDataThrow
    \/ ReplyQueryDataEnd
    \/ ReplyGatherDataDirect
    \/ ReplyGatherDataBegin
    \/ ReplyGatherDataThrow
    \/ ReplyGatherDataEnd
    \/ ReplyPeerTaskMerge
    \/ ReplyPeerTaskFail

SpecReply == InitReply /\ [][NextReply]_vars

\* C18: QueryData invoked on a node that is not the portal replies, for every
\* query type, with success = false and the error message "This node is not the
\* portal" under an OK transport status
C18_NonPortalRejects ==
    \A c \in Clients :
        call[c].pc = "done" /\ call[c].node # config_.portal
            => /\ ~call[c].response.success
               /\ call[c].response.error_message = "This node is not the portal"
               /\ call[c].response.results = <<>>
               /\ call[c].callback = <<"OK">>

\* C18 witness: a write sent to the peer has been rejected
C18_Witness ==
    /\ call[ReplyClient].pc = "done"
    /\ call[ReplyClient].node = "B"
    /\ call[ReplyClient].request.query_type = "write"
    /\ call[ReplyClient].response.error_message = "This node is not the portal"
    /\ call[ReplyClient].callback = <<"OK">>

\* C19: every invocation of HandleQueryData and of HandleGatherData invokes its
\* reply callback exactly once, with transport status OK, on every path: not
\* before the handler completes, once when it has completed
C19_OneReplyAlwaysOk ==
    \A c \in Clients :
        /\ call[c].pc \in {"local", "wait"} => call[c].callback = <<>>
        /\ call[c].pc = "done" => call[c].callback = <<"OK">>
        /\ \A p \in DOMAIN tasks[c] :
              /\ tasks[c][p].status \in {"sent", "gathering"} => tasks[c][p].callback = <<>>
              /\ p \in Handled(c) /\ tasks[c][p].status \in {"replied", "finished"}
                    => tasks[c][p].callback = <<"OK">>

\* C19 witness: a QueryData has completed and replied once although the
\* GatherData it sent to its peer ended in the catch branch, which replied once
C19_Witness ==
    /\ call[ReplyClient].pc = "done"
    /\ call[ReplyClient].response.success
    /\ call[ReplyClient].callback = <<"OK">>
    /\ \E p \in DOMAIN tasks[ReplyClient] :
          /\ tasks[ReplyClient][p].status = "finished"
          /\ tasks[ReplyClient][p].response.error_message = "Exception: std::bad_alloc"
          /\ tasks[ReplyClient][p].callback = <<"OK">>


(***************************************************************************)
(* Coverage of the results by the contributing nodes.                      *)
(***************************************************************************)
\* the contributing-nodes a reader of a response finds: DataResponse carries the
\* repeated field, QueryResponse has no such field
ContributingNodesOf(response) ==
    IF "contributing_nodes" \in DOMAIN response THEN response.contributing_nodes ELSE <<>>

\* every item lies in the range of a node of the topology that is listed
Covered(items, nodes) ==
    \A i \in 1..Len(items) :
        \E n \in config_.nodes :
            /\ items[i].key >= data_range_(n)[1] /\ items[i].key <= data_range_(n)[2]
            /\ n \in Range(nodes)

\* the property on the replies of GatherData alone
GatherRepliesCovered ==
    \A c \in Clients : \A p \in DOMAIN tasks[c] :
        tasks[c][p].status \in {"replied", "finished"}
            => Covered(tasks[c][p].response.data_items,
                       ContributingNodesOf(tasks[c][p].response))

\* C21 (as claimed): for every item in the results of a response, of QueryData
\* or of GatherData, the key lies inside the data range of some node of the
\* topology and that node appears in the contributing-nodes of the response
C21_ItemsCoveredByContributors ==
    /\ GatherRepliesCovered
    /\ \A c \in Clients :
          Replied(c) => Covered(call[c].response.results,
                                ContributingNodesOf(call[c].response))


(***************************************************************************)
(* One client of a portal with one peer whose data ranges start at any     *)
(* offset, negative keys and zero included: reads, writes of keys inside   *)
(* and outside every range, and GatherData requests sent to the peer.      *)
(***************************************************************************)
SeedCalls == 2            \* calls per behaviour

\* the portal owns [lo, lo + KeysPerNode - 1], its peer the KeysPerNode keys after
SignedTopology(lo) ==
    [PairTopology(1) EXCEPT
        !.data_range = [n \in SmallNodes(2) |->
            IF n = "A" THEN <<lo, lo + KeysPerNode - 1>>
            ELSE <<lo + KeysPerNode, lo + 2 * KeysPerNode - 1>>]]

SeedTopologies == {SignedTopology(lo) : lo \in (-7)..1}

SeedClient == "c1"

\* the key below every range
OutsideKey(cfg) == CHOOSE k \in AllKeys(cfg) : \A j \in AllKeys(cfg) : k <= j

\* writes of every key and of a key no node owns, an exact read at each node, a
\* range over both nodes and an 'all' query; every call has a query id of its own
SeedRequests ==
    LET q == IF ncalls = 0 THEN "q1" ELSE "q2"
        lo == data_range_("A")[1]
    IN  IF ncalls >= SeedCalls THEN {}
        ELSE {WriteRequest(q, SeedClient, k, "v1") :
                    k \in AllKeys(config_) \cup {OutsideKey(config_) - 1}}
             \cup {ExactRequest(q, SeedClient, lo),
                   ExactRequest(q, SeedClient, lo + KeysPerNode)}
             \cup {RangeRequest(q, SeedClient, lo + KeysPerNode - 1, lo + KeysPerNode)}
             \cup {AllRequest(q, SeedClient)}

SeedDataRequests ==
    IF ncalls >= SeedCalls THEN {}
    ELSE {DataRequestOf(config_.portal, "q1", forward, 0) : forward \in BOOLEAN}

InitSeed == \E cfg \in SeedTopologies : Construct(cfg)

SeedQueryDataBegin == QueryDataBegin({SeedClient}, {config_.portal}, SeedRequests)
SeedQueryDataLocal == QueryDataLocal({SeedClient})
SeedQueryDataEnd == QueryDataEnd({SeedClient})
SeedGatherDataDirect ==
    GatherDataDirect({SeedClient}, config_.nodes \ {config_.portal}, SeedDataRequests)
SeedGatherDataBegin == GatherDataBegin({SeedClient})
SeedGatherDataEnd == GatherDataEnd({SeedClient})
SeedPeerTaskMerge == PeerTaskMerge({SeedClient})

NextSeed ==
    \/ SeedQueryDataBegin
    \/ SeedQueryDataLocal
    \/ SeedQueryDataEnd
    \/ SeedGatherDataDirect
    \/ SeedGatherDataBegin
    \/ SeedGatherDataEnd
    \/ SeedPeerTaskMerge

SpecSeed == InitSeed /\ [][NextSeed]_vars

SeedVariants ==
    <<"string_value", "double_value_x2", "bool_value", "object_value", "binary_value">>

\* an item made by the seeding rule (a written item has data_type "string")
Seeded(item) == item.data_type \in Range(DataTypes)

\* what holds of the stored items whose key is not negative
NonNegativeItemsWellFormed ==
    \A n \in config_.nodes : \A k \in DOMAIN data_map_[n] :
        LET item == DeserializeDataItem(data_map_[n][k])
        IN  k >= 0 => /\ item.key = k
                      /\ item.variant \in OneofFields
                      /\ Seeded(item) => item.variant = SeedVariants[(k % 5) + 1]

\* C23 (as claimed): every DataItem held in a local store has its key populated
\* and exactly one value variant set, and for a seeded item the variant is the
\* one selected by key mod 5, for every key a range may contain, zero and
\* negative keys included
C23_StoredItemsWellFormed ==
    \A n \in config_.nodes : \A k \in DOMAIN data_map_[n] :
        LET item == DeserializeDataItem(data_map_[n][k])
        IN  /\ item.key = k
            /\ item.variant \in OneofFields
            /\ Seeded(item) => item.variant = SeedVariants[(k % 5) + 1]


(***************************************************************************)
(* Start-up of one node from a configuration document that may be          *)
(* defective: the constructor runs LoadConfig, then seeds the store.       *)
(***************************************************************************)
\* the top-level scalars of the document
Scalars == {"portal", "shared_memory_key", "cache_size", "cache_ttl_seconds"}

\* the data_range arrays tried: none, too short, a single key, ascending, across
\* zero, inverted
DocumentRanges == {<<>>, <<1>>, <<1, 1>>, <<1, 2>>, <<-1, 0>>, <<2, 1>>}

\* a configuration file: whether it opens and parses, the top-level keys it has,
\* the ids under "nodes" and the data_range every one of them carries
Documents ==
    [ file       : {"missing", "malformed", "ok"},
      keys       : SUBSET (Scalars \cup {"nodes"}),
      node_ids   : SUBSET SmallNodes(2),
      data_range : DocumentRanges ]

\* the config_ of an instance before LoadConfig has run
NoConfig ==
    [ portal |-> "", nodes |-> {}, data_range |-> <<>>, connects_to |-> <<>>,
      cache_size |-> 0, cache_ttl_seconds |-> 0 ]

\* LoadConfig throws: the file does not open, json::parse fails, the node id is
\* not under "nodes", or a value read into an int or a string is null
LoadConfig_Throws(document, node_id) ==
    \/ document.file # "ok"
    \/ "nodes" \notin document.keys
    \/ node_id \notin document.node_ids
    \/ Len(document.data_range) < 2
    \/ "shared_memory_key" \notin document.keys
    \/ "cache_size" \notin document.keys
    \/ "cache_ttl_seconds" \notin document.keys

\* the fields LoadConfig leaves in the instance; a missing "portal" compares
\* unequal to every node id
LoadConfig(document, node_id) ==
    [ portal            |-> IF "portal" \in document.keys THEN "A" ELSE "",
      nodes             |-> document.node_ids,
      data_range        |-> [n \in document.node_ids |-> document.data_range],
      connects_to       |-> [n \in document.node_ids |-> {}],
      cache_size        |-> 1,
      cache_ttl_seconds |-> 1 ]

\* a process is started with a node id and a document
InitConfig ==
    /\ \E document \in Documents, node_id \in SmallNodes(3) :
          startup = [document |-> document, node_id |-> node_id, result |-> "constructing"]
    /\ config_ = NoConfig
    /\ now = StartTime
    /\ data_map_ = NoMessages
    /\ query_cache_ = <<>>
    /\ call = [c \in Clients |-> NoCall]
    /\ tasks = [c \in Clients |-> NoTasks]
    /\ ncalls = 0
    /\ history = NoHistory
    /\ owner = NoOwner
    /\ threads = NoThreads
    /\ rpc = NoRpc
    /\ messages_ = NoMessages
    /\ subscriptions_ = NoMessages

\* the constructor through LoadConfig
Constructor_LoadConfig ==
    /\ startup.result = "constructing"
    /\ ~LoadConfig_Throws(startup.document, startup.node_id)
    /\ config_' = LoadConfig(startup.document, startup.node_id)
    /\ startup' = [startup EXCEPT !.result = "loaded"]
    /\ UNCHANGED <<data_map_, query_cache_, now, call, tasks, ncalls, history>>
    /\ UNCHANGED <<owner, threads, rpc, messages_, subscriptions_>>

\* LoadConfig rethrows: the constructor fails and no instance exists
Constructor_Throw ==
    /\ startup.result = "constructing"
    /\ LoadConfig_Throws(startup.document, startup.node_id)
    /\ startup' = [startup EXCEPT !.result = "failed"]
    /\ UNCHANGED queryvars
    /\ UNCHANGED <<owner, threads, rpc, messages_, subscriptions_>>

\* the rest of the constructor: InitSharedMemory, InitializeTestData, ConnectToPeers
Constructor_InitializeTestData ==
    /\ startup.result = "loaded"
    /\ data_map_' = [n \in {startup.node_id} |-> InitializeTestData(config_, n, now)]
    /\ startup' = [startup EXCEPT !.result = "up"]
    /\ UNCHANGED <<config_, query_cache_, now, call, tasks, ncalls, history>>
    /\ UNCHANGED <<owner, threads, rpc, messages_, subscriptions_>>

NextConfig ==
    \/ Constructor_LoadConfig
    \/ Constructor_Throw
    \/ Constructor_InitializeTestData

SpecConfig == InitConfig /\ [][NextConfig]_vars

\* the errors of a document that LoadConfig does treat as fatal
FatalInCode(document, node_id) ==
    \/ document.file # "ok"
    \/ node_id \notin document.node_ids \/ "nodes" \notin document.keys
    \/ Len(document.data_range) < 2
    \/ (Scalars \ {"portal"}) \ document.keys # {}

\* what does hold: none of those documents brings a node up
FatalErrorsOfCode ==
    startup.result \in {"loaded", "up"} => ~FatalInCode(startup.document, startup.node_id)

\* C24 (as claimed): no node comes up when the config file is missing or
\* malformed, the requested node id is absent from nodes, the node's data range
\* has lo > hi, or a required scalar is missing
C24_ConfigErrorsFatal ==
    startup.result \in {"loaded", "up"}
        => /\ startup.document.file = "ok"
           /\ "nodes" \in startup.document.keys
           /\ startup.node_id \in startup.document.node_ids
           /\ Len(startup.document.data_range) = 2
           /\ startup.document.data_range[1] <= startup.document.data_range[2]
           /\ Scalars \subseteq startup.document.keys

\* the same for the range alone
RangeErrorFatal ==
    startup.result \in {"loaded", "up"} /\ Scalars \subseteq startup.document.keys
        => startup.document.data_range[1] <= startup.document.data_range[2]


(***************************************************************************)
(* The lock operations of the query path, thread by thread: two QueryData  *)
(* handlers at the portal A, the tasks of QueryPeers for the peers B and   *)
(* C, the GatherData handlers they call and the task B forwards to C.      *)
(***************************************************************************)
Lock(m) == <<"lock", m>>
Unlock(m) == <<"unlock", m>>
Spawn(t) == <<"spawn", t>>       \* std::async, or the request of an RPC reaching its handler
Join(t) == <<"join", t>>         \* future.wait, or the blocking wait for the reply of an RPC

\* the mutexes: cache_mutex_ of the portal, the named mutex of every node's
\* store, and the response_mutex local to the fan-out run by thread t
CacheMutex == <<"cache_mutex_", "A">>
StoreMutex(n) == <<"shared_memory_mutex_", n>>
ResponseMutex(t) == <<"response_mutex", t>>

RECURSIVE Repeat(_, _)
Repeat(ops, k) == IF k = 0 THEN <<>> ELSE ops \o Repeat(ops, k - 1)

RECURSIVE Flatten(_)
Flatten(seqs) == IF seqs = <<>> THEN <<>> ELSE Head(seqs) \o Flatten(Tail(seqs))

\* a CleanCache that takes the cache mutex itself
CleanCacheOps_Locks == <<Lock(CacheMutex), Unlock(CacheMutex)>>
\* CleanCache takes no lock: its callers hold cache_mutex_
CleanCacheOps == <<>>
\* CheckCache: lock_guard over the sweep and the lookup
CheckCacheOps == <<Lock(CacheMutex)>> \o CleanCacheOps \o <<Unlock(CacheMutex)>>
\* AddToCache: lock_guard over the sweep, the eviction and the push
AddToCacheOps == <<Lock(CacheMutex)>> \o CleanCacheOps \o <<Unlock(CacheMutex)>>
\* scoped_lock over one find
RetrieveDataFromSharedMemoryOps(n) == <<Lock(StoreMutex(n)), Unlock(StoreMutex(n))>>
\* scoped_lock over one insert_or_assign
StoreDataInSharedMemoryOps(n) == <<Lock(StoreMutex(n)), Unlock(StoreMutex(n))>>

\* QueryLocalData: one put for a write, one get per key read
QueryLocalDataOps(n, type) ==
    IF type = "write" THEN StoreDataInSharedMemoryOps(n)
    ELSE IF type = "exact" THEN RetrieveDataFromSharedMemoryOps(n)
    ELSE Repeat(RetrieveDataFromSharedMemoryOps(n), KeysPerNode)

\* ProcessForwardedRequest: one get per key read, nothing for a write
ProcessForwardedRequestOps(n, type) ==
    IF type = "write" THEN <<>>
    ELSE IF type = "exact" THEN RetrieveDataFromSharedMemoryOps(n)
    ELSE Repeat(RetrieveDataFromSharedMemoryOps(n), KeysPerNode)

\* the lambda of a fan-out run by thread parent: the GatherData call served by
\* thread callee, then the append under the fan-out's response_mutex
PeerTaskOps(parent, callee) ==
    <<Spawn(callee), Join(callee), Lock(ResponseMutex(parent)), Unlock(ResponseMutex(parent))>>

\* QueryPeers / ForwardRequestToPeers: launch the tasks, wait for each future
FanOutOps(ts) ==
    Flatten([i \in 1..Len(ts) |-> <<Spawn(ts[i])>>]) \o Flatten([i \in 1..Len(ts) |-> <<Join(ts[i])>>])

\* HandleQueryData on a cache miss, and on a hit
HandleQueryDataOps(type, ts) ==
    CheckCacheOps \o QueryLocalDataOps("A", type) \o FanOutOps(ts) \o AddToCacheOps
HandleQueryDataHitOps == CheckCacheOps

\* HandleGatherData on node n
HandleGatherDataOps(n, type, ts) == ProcessForwardedRequestOps(n, type) \o FanOutOps(ts)

LockThreads == {"h1", "h2", "k1", "k2", "gB", "gC", "f1", "gC2"}

\* h1 misses the cache and queries B and C; B forwards to C; h2 hits the cache
\* or misses it for a query that no peer is asked
Program(type, hit) ==
    [t \in LockThreads |->
        IF t = "h1" THEN HandleQueryDataOps(type, <<"k1", "k2">>)
        ELSE IF t = "h2" THEN (IF hit THEN HandleQueryDataHitOps
                               ELSE HandleQueryDataOps(type, <<>>))
        ELSE IF t = "k1" THEN PeerTaskOps("h1", "gB")
        ELSE IF t = "k2" THEN PeerTaskOps("h1", "gC")
        ELSE IF t = "gB" THEN HandleGatherDataOps("B", type, IF type = "write" THEN <<>> ELSE <<"f1">>)
        ELSE IF t = "f1" THEN PeerTaskOps("gB", "gC2")
        ELSE HandleGatherDataOps("C", type, <<>>)]

LockMutexes ==
    {CacheMutex} \cup {StoreMutex(n) : n \in SmallNodes(3)}
    \cup {ResponseMutex(t) : t \in {"h1", "gB"}}

InitLock ==
    /\ ConstructNodes(MeshTopology(1))
    /\ \E type \in {"exact", "write", "all"}, hit \in BOOLEAN :
          /\ threads = [t \in LockThreads |->
                [ops |-> Program(type, hit)[t], held |-> <<>>,
                 status |-> IF t \in {"h1", "h2"} THEN "running" ELSE "idle"]]
          /\ owner = [m \in LockMutexes |-> ""]
    /\ startup = NoStartup
    /\ rpc = NoRpc
    /\ messages_ = NoMessages
    /\ subscriptions_ = NoMessages

\* the operation thread t is at
NextOp(t) == IF threads[t].ops = <<>> THEN <<"end", "">> ELSE Head(threads[t].ops)
Runs(t) == threads[t].status = "running" /\ threads[t].ops # <<>>

\* mutex::lock by thread t: taken when free; undefined when t already owns the
\* mutex (the thread is taken to hang)
Thread_Lock(t) ==
    /\ Runs(t) /\ NextOp(t)[1] = "lock"
    /\ LET m == NextOp(t)[2]
       IN  \/ /\ owner[m] = ""
              /\ owner' = [owner EXCEPT ![m] = t]
              /\ threads' = [threads EXCEPT ![t].ops = Tail(@), ![t].held = Append(@, m)]
           \/ /\ owner[m] = t
              /\ threads' = [threads EXCEPT ![t].status = "undefined", ![t].held = Append(@, m)]
              /\ UNCHANGED owner
    /\ UNCHANGED queryvars
    /\ UNCHANGED <<startup, rpc, messages_, subscriptions_>>

\* the end of the scope of a lock_guard
Thread_Unlock(t) ==
    /\ Runs(t) /\ NextOp(t)[1] = "unlock"
    /\ owner' = [owner EXCEPT ![NextOp(t)[2]] = ""]
    /\ threads' = [threads EXCEPT ![t].ops = Tail(@),
                                  ![t].held = SelectSeq(@, LAMBDA m : m # NextOp(t)[2])]
    /\ UNCHANGED queryvars
    /\ UNCHANGED <<startup, rpc, messages_, subscriptions_>>

\* thread t starts a task or sends a request
Thread_Spawn(t) ==
    /\ Runs(t) /\ NextOp(t)[1] = "spawn"
    /\ threads' = [threads EXCEPT ![t].ops = Tail(@), ![NextOp(t)[2]].status = "running"]
    /\ UNCHANGED queryvars
    /\ UNCHANGED <<startup, owner, rpc, messages_, subscriptions_>>

\* thread t gets the result of a task or the reply of its call
Thread_Join(t) ==
    /\ Runs(t) /\ NextOp(t)[1] = "join"
    /\ threads[NextOp(t)[2]].status = "running" /\ threads[NextOp(t)[2]].ops = <<>>
    /\ threads' = [threads EXCEPT ![t].ops = Tail(@)]
    /\ UNCHANGED queryvars
    /\ UNCHANGED <<startup, owner, rpc, messages_, subscriptions_>>

LockStep == \E t \in DOMAIN threads : Thread_Lock(t)
UnlockStep == \E t \in DOMAIN threads : Thread_Unlock(t)
SpawnStep == \E t \in DOMAIN threads : Thread_Spawn(t)
JoinStep == \E t \in DOMAIN threads : Thread_Join(t)

NextLock ==
    \/ LockStep
    \/ UnlockStep
    \/ SpawnStep
    \/ JoinStep

SpecLock == InitLock /\ [][NextLock]_vars

\* position of a mutex in the order cache -> aggregation -> local-store
Rank(m) ==
    IF m[1] = "cache_mutex_" THEN 1 ELSE IF m[1] = "response_mutex" THEN 2 ELSE 3

\* what thread t cannot go on without: a mutex another thread (or t itself)
\* holds, or the end of another thread
WaitsFor(t) ==
    IF threads[t].status = "undefined" THEN {t}
    ELSE IF ~Runs(t) THEN {}
    ELSE IF NextOp(t)[1] = "lock" /\ owner[NextOp(t)[2]] # "" THEN {owner[NextOp(t)[2]]}
    ELSE IF NextOp(t)[1] = "join" /\ threads[NextOp(t)[2]].ops # <<>> THEN {NextOp(t)[2]}
    ELSE {}

\* a set of threads none of which can ever move: each waits for a mutex held
\* by a member of the set, or for the end of a member
LockDeadlock ==
    \E S \in SUBSET DOMAIN threads :
        /\ S # {}
        /\ \A t \in S : WaitsFor(t) # {} /\ WaitsFor(t) \subseteq S
        /\ \E t \in S : threads[t].status = "undefined"
                        \/ (Runs(t) /\ NextOp(t)[1] = "lock")

\* C25: no thread acquires a mutex while it holds one that comes later in the
\* order cache -> aggregation -> local-store, no thread re-acquires a mutex it
\* holds, and no reachable state is a lock deadlock
C25_LockDiscipline ==
    /\ \A t \in DOMAIN threads :
          \A i, j \in 1..Len(threads[t].held) :
              i < j => /\ Rank(threads[t].held[i]) <= Rank(threads[t].held[j])
                       /\ threads[t].held[i] # threads[t].held[j]
    /\ ~LockDeadlock

\* C25 witness: a task of the fan-out waits for the response mutex that the
\* other task holds, while the second handler holds the cache mutex and the
\* task forwarded by B has taken the response mutex of B's fan-out before
C25_Witness ==
    /\ \E k, l \in {"k1", "k2"} :
          /\ k # l /\ owner[ResponseMutex("h1")] = l
          /\ Runs(k) /\ NextOp(k) = Lock(ResponseMutex("h1"))
    /\ owner[CacheMutex] = "h2"
    /\ threads["f1"].status = "running" /\ threads["f1"].ops = <<>>


(***************************************************************************)
(* The messaging handlers: HandleSendMessage and                           *)
(* HandleSendMultipleMessages, both through StoreMessage and               *)
(* GenerateMessageId under mutex_.                                         *)
(***************************************************************************)
MaxBatch == 2             \* longest client stream of SendMultipleMessages

BatchTimeout == 4000      \* timeout of HandleSendMultipleMessages, in milliseconds

MessageMutex == "mutex_"
HandlerThread == "handler"

\* MessageRequest: one with every field set, one left at its defaults
MessageRequests ==
    { [sender_id |-> "test_sender", receiver_id |-> "test_receiver",
       content |-> "Test message", timestamp |-> 123456789],
      [sender_id |-> "", receiver_id |-> "", content |-> "", timestamp |-> 0] }

\* "msg_" followed by the hexadecimal digits of a draw from 1..0xFFFFFF
MessageIds == {"msg_1", "msg_ffffff"}

\* the client streams of at most MaxBatch messages
RECURSIVE StreamsOf(_)
StreamsOf(k) ==
    IF k = 0 THEN {<<>>}
    ELSE StreamsOf(k - 1)
         \cup {Append(s, m) : s \in {t \in StreamsOf(k - 1) : Len(t) = k - 1},
                              m \in MessageRequests}

NoMessageResponse == [success |-> FALSE, message_id |-> "", timestamp |-> 0, error_message |-> ""]
NoBatchResponse ==
    [success_count |-> 0, failure_count |-> 0, message_ids |-> <<>>, error_message |-> ""]

\* the handler is entered with a unary request
HandleSendMessage_Begin(request) ==
    /\ rpc.pc = "idle"
    /\ rpc' = [handler |-> "SendMessage", pc |-> "StoreMessage", request |-> request,
               message_id |-> "", response |-> NoMessageResponse, callback |-> <<>>]
    /\ UNCHANGED queryvars
    /\ UNCHANGED <<startup, owner, threads, messages_, subscriptions_>>

\* the handler is entered with a client stream
HandleSendMultipleMessages_Begin(stream) ==
    /\ rpc.pc = "idle"
    /\ rpc' = [handler |-> "SendMultipleMessages", pc |-> "Read", stream |-> stream,
               sent |-> Len(stream), start_time |-> now, timed_out |-> FALSE,
               processed |-> 0, success_count |-> 0, failure_count |-> 0,
               request |-> <<>>, message_id |-> "",
               response |-> NoBatchResponse, callback |-> <<>>]
    /\ UNCHANGED queryvars
    /\ UNCHANGED <<startup, owner, threads, messages_, subscriptions_>>

\* reader->Read and the timeout test of the loop
HandleSendMultipleMessages_Read ==
    /\ rpc.pc = "Read"
    /\ IF rpc.stream = <<>> THEN rpc' = [rpc EXCEPT !.pc = "finish"]
       ELSE IF now - rpc.start_time >= BatchTimeout
       THEN rpc' = [rpc EXCEPT !.pc = "finish", !.stream = Tail(@), !.timed_out = TRUE]
       ELSE rpc' = [rpc EXCEPT !.pc = "StoreMessage", !.stream = Tail(@),
                               !.request = Head(rpc.stream)]
    /\ UNCHANGED queryvars
    /\ UNCHANGED <<startup, owner, threads, messages_, subscriptions_>>

\* the clock advances between two reads of the stream
BatchElapse ==
    /\ rpc.pc = "Read"
    /\ now - rpc.start_time < BatchTimeout
    /\ now' = now + MsPerTick
    /\ UNCHANGED <<config_, data_map_, query_cache_, call, tasks, ncalls, history>>
    /\ UNCHANGED othervars

\* StoreMessage: lock_guard on mutex_
StoreMessage_Lock ==
    /\ rpc.pc = "StoreMessage"
    /\ owner[MessageMutex] = ""
    /\ owner' = [owner EXCEPT ![MessageMutex] = HandlerThread]
    /\ rpc' = [rpc EXCEPT !.pc = "GenerateMessageId"]
    /\ UNCHANGED queryvars
    /\ UNCHANGED <<startup, threads, messages_, subscriptions_>>

\* GenerateMessageId, called with mutex_ held, locks mutex_ again: undefined
\* for std::mutex. Outcome 1: the thread blocks on itself for ever
GenerateMessageId_Hang ==
    /\ rpc.pc = "GenerateMessageId"
    /\ owner[MessageMutex] = HandlerThread
    /\ rpc' = [rpc EXCEPT !.pc = "hung"]
    /\ UNCHANGED queryvars
    /\ UNCHANGED <<startup, owner, threads, messages_, subscriptions_>>

\* Outcome 2: lock throws std::system_error; neither StoreMessage nor the
\* handler catches it, the lock_guard of StoreMessage unlocks while unwinding
\* and the callback is never invoked
GenerateMessageId_Throw ==
    /\ rpc.pc = "GenerateMessageId"
    /\ owner[MessageMutex] = HandlerThread
    /\ owner' = [owner EXCEPT ![MessageMutex] = ""]
    /\ rpc' = [rpc EXCEPT !.pc = "escaped"]
    /\ UNCHANGED queryvars
    /\ UNCHANGED <<startup, threads, messages_, subscriptions_>>

\* Outcome 3: the second lock goes through; the id is drawn, both guards
\* unlock, StoreMessage stores the message under the id and returns true
GenerateMessageId_Proceed(id) ==
    /\ rpc.pc = "GenerateMessageId"
    /\ owner[MessageMutex] = HandlerThread
    /\ owner' = [owner EXCEPT ![MessageMutex] = ""]
    /\ messages_' = [k \in DOMAIN messages_ \cup {id} |->
                        IF k = id THEN rpc.request ELSE messages_[k]]
    /\ rpc' = IF rpc.handler = "SendMessage"
              THEN [rpc EXCEPT !.pc = "reply", !.message_id = id]
              ELSE [rpc EXCEPT !.pc = "Read", !.message_id = id,
                               !.processed = @ + 1, !.success_count = @ + 1,
                               !.response.message_ids = Append(@, id)]
    /\ UNCHANGED queryvars
    /\ UNCHANGED <<startup, threads, subscriptions_>>

\* HandleSendMessage after StoreMessage has returned: fill the response, reply
HandleSendMessage_End ==
    /\ rpc.pc = "reply"
    /\ rpc' = [rpc EXCEPT !.pc = "done",
                          !.response = [success |-> TRUE, message_id |-> rpc.message_id,
                                        timestamp |-> now, error_message |-> ""],
                          !.callback = Append(@, "OK")]
    /\ UNCHANGED queryvars
    /\ UNCHANGED <<startup, owner, threads, messages_, subscriptions_>>

\* HandleSendMultipleMessages after its loop: the counts, the error message, reply
HandleSendMultipleMessages_End ==
    /\ rpc.pc = "finish"
    /\ rpc' = [rpc EXCEPT !.pc = "done",
                          !.response.success_count = rpc.success_count,
                          !.response.failure_count = rpc.failure_count,
                          !.response.error_message =
                              IF rpc.failure_count > 0
                              THEN "Failed to store " \o ToString(rpc.failure_count) \o " messages"
                              ELSE "",
                          !.callback = Append(@, "OK")]
    /\ UNCHANGED queryvars
    /\ UNCHANGED <<startup, owner, threads, messages_, subscriptions_>>

\* the caller takes the reply; the next call may start
Rpc_Return ==
    /\ rpc.pc = "done"
    /\ ncalls < MaxCalls
    /\ rpc' = NoRpc
    /\ ncalls' = ncalls + 1
    /\ UNCHANGED <<config_, data_map_, query_cache_, now, call, tasks, history>>
    /\ UNCHANGED <<startup, owner, threads, messages_, subscriptions_>>

InitMessage ==
    /\ ConstructNodes(PairTopology(1))
    /\ startup = NoStartup
    /\ owner = [m \in {MessageMutex} |-> ""]
    /\ threads = NoThreads
    /\ rpc = NoRpc
    /\ messages_ = NoMessages
    /\ subscriptions_ = NoMessages

SendMessageBegin == \E request \in MessageRequests : HandleSendMessage_Begin(request)
SendMultipleMessagesBegin == \E stream \in StreamsOf(MaxBatch) : HandleSendMultipleMessages_Begin(stream)
GenerateMessageIdProceed == \E id \in MessageIds : GenerateMessageId_Proceed(id)

NextMessage ==
    \/ SendMessageBegin
    \/ SendMultipleMessagesBegin
    \/ HandleSendMultipleMessages_Read
    \/ BatchElapse
    \/ StoreMessage_Lock
    \/ GenerateMessageId_Hang
    \/ GenerateMessageId_Throw
    \/ GenerateMessageIdProceed
    \/ HandleSendMessage_End
    \/ HandleSendMultipleMessages_End
    \/ Rpc_Return

SpecMessage == InitMessage /\ [][NextMessage]_vars

\* what a SendMessage that has replied leaves
SendMessageReplyGood ==
    rpc.pc = "done" /\ rpc.handler = "SendMessage"
        => /\ rpc.callback = <<"OK">>
           /\ rpc.response.success
           /\ rpc.response.message_id # ""
           /\ rpc.response.timestamp > 0
           /\ rpc.response.error_message = ""
           /\ rpc.response.message_id \in DOMAIN messages_
           /\ messages_[rpc.response.message_id] = rpc.request

\* C26 (as claimed): HandleSendMessage always completes: for every
\* MessageRequest it invokes the callback with OK and leaves success=true, a
\* non-empty message_id, timestamp > 0, an empty error_message and the message
\* stored under that id
C26_SendMessageCompletes ==
    /\ rpc.pc # "idle" /\ rpc.handler = "SendMessage" => rpc.pc \notin {"hung", "escaped"}
    /\ SendMessageReplyGood

\* what a SendMultipleMessages that has replied leaves
BatchReplyGood ==
    rpc.pc = "done" /\ rpc.handler = "SendMultipleMessages"
        => /\ rpc.callback = <<"OK">>
           /\ rpc.response.success_count + rpc.response.failure_count = rpc.processed
           /\ Len(rpc.response.message_ids) = rpc.response.success_count
           /\ ~rpc.timed_out
                => /\ rpc.response.success_count = rpc.sent
                   /\ rpc.response.failure_count = 0
                   /\ Len(rpc.response.message_ids) = rpc.sent
                   /\ rpc.response.error_message = ""

\* C27 (as claimed): HandleSendMultipleMessages, for a client stream of n
\* messages that ends before the timeout, completes with OK, success_count = n,
\* failure_count = 0, n message_ids and an empty error_message; in general
\* success_count + failure_count is the number of messages processed and
\* message_ids has success_count entries
C27_BatchCompletes ==
    /\ rpc.pc # "idle" /\ rpc.handler = "SendMultipleMessages"
          => rpc.pc \notin {"hung", "escaped"}
    /\ BatchReplyGood


(***************************************************************************)
(* HandleSubscribeToUpdates: the subscription is stored, one update per    *)
(* topic is written, then rounds of updates one second apart, while the    *)
(* client may cancel and the stream may stop accepting writes.             *)
(***************************************************************************)
MaxRounds == 10           \* rounds of periodic updates

SubscriptionRequests ==
    { [subscriber_id |-> "test_subscriber", topics |-> topics] :
        topics \in {<<>>, <<"topic1">>, <<"topic1", "topic2">>} }

\* the handler is entered: the topics are stored under mutex_
HandleSubscribeToUpdates_Begin(request) ==
    /\ rpc.pc = "idle"
    /\ owner[MessageMutex] = ""
    /\ subscriptions_' = [k \in DOMAIN subscriptions_ \cup {request.subscriber_id} |->
                            IF k = request.subscriber_id THEN request.topics
                            ELSE subscriptions_[k]]
    /\ rpc' = [handler |-> "SubscribeToUpdates", pc |-> "initial", request |-> request,
               i |-> 1, count |-> 0, written |-> <<>>, callback |-> <<>>,
               \* the client's side of the stream
               cancelled |-> FALSE, writable |-> TRUE,
               \* IsCancelled as the last test of the loop saw it
               observed |-> FALSE]
    /\ UNCHANGED queryvars
    /\ UNCHANGED <<startup, owner, threads, messages_>>

\* writer->Write: the update reaches the stream, or the write fails
Write(update) == IF rpc.writable THEN Append(rpc.written, update) ELSE rpc.written

\* the first loop: one "Subscribed to" update per topic, until a write fails
HandleSubscribeToUpdates_Initial ==
    /\ rpc.pc = "initial"
    /\ IF rpc.i > Len(rpc.request.topics) \/ ~rpc.writable
       THEN rpc' = [rpc EXCEPT !.pc = "loop"]
       ELSE rpc' = [rpc EXCEPT !.i = @ + 1,
                               !.written = Write([topic |-> rpc.request.topics[rpc.i],
                                                  content |-> "Subscribed", round |-> -1])]
    /\ UNCHANGED queryvars
    /\ UNCHANGED <<startup, owner, threads, messages_, subscriptions_>>

\* a loop test that does not look at the cancellation
HandleSubscribeToUpdates_LoopTest_IgnoresCancel ==
    /\ rpc.pc = "loop"
    /\ rpc' = [rpc EXCEPT !.pc = IF rpc.count < MaxRounds THEN "sleep" ELSE "finish",
                          !.observed = rpc.cancelled]
    /\ UNCHANGED queryvars
    /\ UNCHANGED <<startup, owner, threads, messages_, subscriptions_>>

\* while (!context->IsCancelled() && count < 10)
HandleSubscribeToUpdates_LoopTest ==
    /\ rpc.pc = "loop"
    /\ rpc' = [rpc EXCEPT !.pc = IF ~rpc.cancelled /\ rpc.count < MaxRounds
                                 THEN "sleep" ELSE "finish",
                          !.observed = rpc.cancelled]
    /\ UNCHANGED queryvars
    /\ UNCHANGED <<startup, owner, threads, messages_, subscriptions_>>

\* sleep_for(1 s)
HandleSubscribeToUpdates_Sleep ==
    /\ rpc.pc = "sleep"
    /\ now' = now + MsPerSecond
    /\ rpc' = [rpc EXCEPT !.pc = "round", !.i = 1]
    /\ UNCHANGED <<config_, data_map_, query_cache_, call, tasks, ncalls, history>>
    /\ UNCHANGED <<startup, owner, threads, messages_, subscriptions_>>

\* one round: one update per topic until a write fails, then count++
HandleSubscribeToUpdates_Round ==
    /\ rpc.pc = "round"
    /\ IF rpc.i > Len(rpc.request.topics) \/ ~rpc.writable
       THEN rpc' = [rpc EXCEPT !.pc = "loop", !.count = @ + 1]
       ELSE rpc' = [rpc EXCEPT !.i = @ + 1,
                               !.written = Write([topic |-> rpc.request.topics[rpc.i],
                                                  content |-> "Update", round |-> rpc.count])]
    /\ UNCHANGED queryvars
    /\ UNCHANGED <<startup, owner, threads, messages_, subscriptions_>>

\* callback(grpc::Status::OK)
HandleSubscribeToUpdates_End ==
    /\ rpc.pc = "finish"
    /\ rpc' = [rpc EXCEPT !.pc = "done", !.callback = Append(@, "OK")]
    /\ UNCHANGED queryvars
    /\ UNCHANGED <<startup, owner, threads, messages_, subscriptions_>>

\* the client cancels the call: IsCancelled turns true and writes fail
ClientCancel ==
    /\ rpc.pc \in {"initial", "loop", "sleep", "round"}
    /\ ~rpc.cancelled
    /\ rpc' = [rpc EXCEPT !.cancelled = TRUE, !.writable = FALSE]
    /\ UNCHANGED queryvars
    /\ UNCHANGED <<startup, owner, threads, messages_, subscriptions_>>

\* the stream stops accepting writes without the call being cancelled
StreamBreaks ==
    /\ rpc.pc \in {"initial", "loop", "sleep", "round"}
    /\ rpc.writable /\ ~rpc.cancelled
    /\ rpc' = [rpc EXCEPT !.writable = FALSE]
    /\ UNCHANGED queryvars
    /\ UNCHANGED <<startup, owner, threads, messages_, subscriptions_>>

SubscribeToUpdatesBegin ==
    \E request \in SubscriptionRequests : HandleSubscribeToUpdates_Begin(request)

\* the steps of the handler's thread
SubscribeThread ==
    \/ HandleSubscribeToUpdates_Initial
    \/ HandleSubscribeToUpdates_LoopTest
    \/ HandleSubscribeToUpdates_Sleep
    \/ HandleSubscribeToUpdates_Round
    \/ HandleSubscribeToUpdates_End

NextSubscribe ==
    \/ SubscribeToUpdatesBegin
    \/ HandleSubscribeToUpdates_Initial
    \/ HandleSubscribeToUpdates_LoopTest
    \/ HandleSubscribeToUpdates_Sleep
    \/ HandleSubscribeToUpdates_Round
    \/ HandleSubscribeToUpdates_End
    \/ ClientCancel
    \/ StreamBreaks

\* the handler's thread keeps running: sleep_for returns, Write returns
SpecSubscribe == InitMessage /\ [][NextSubscribe]_vars /\ WF_vars(SubscribeThread)

\* the updates of one kind written so far, in order
UpdatesOf(content) == SelectSeq(rpc.written, LAMBDA u : u.content = content)

\* the reply, the initial updates, the bound on the rounds and the effect of a
\* cancellation seen by the loop test
SubscribeSafe ==
    rpc.pc # "idle" =>
        /\ rpc.pc = "done" => rpc.callback = <<"OK">>
        /\ rpc.pc # "done" => rpc.callback = <<>>
        \* one initial update per topic, in order, while the stream takes writes
        /\ \A k \in 1..Len(UpdatesOf("Subscribed")) :
              /\ k <= Len(rpc.request.topics)
              /\ UpdatesOf("Subscribed")[k].topic = rpc.request.topics[k]
        /\ rpc.pc # "initial" /\ rpc.writable
              => Len(UpdatesOf("Subscribed")) = Len(rpc.request.topics)
        \* at most MaxRounds rounds, each with at most one update per topic
        /\ rpc.count <= MaxRounds
        /\ \A k \in 1..Len(UpdatesOf("Update")) :
              UpdatesOf("Update")[k].round \in 0..(MaxRounds - 1)
        /\ Len(UpdatesOf("Update")) <= MaxRounds * Len(rpc.request.topics)
        \* a cancellation seen by the loop test: no further round
        /\ rpc.observed => rpc.pc \in {"finish", "done"}

\* C28: HandleSubscribeToUpdates always terminates with an OK status: it sends
\* one initial update per requested topic, then at most 10 rounds of periodic
\* updates, and a cancellation observed between rounds stops the loop so that
\* no further round is sent
C28_SubscribeTerminates ==
    /\ []SubscribeSafe
    /\ (rpc.pc = "initial") ~> (rpc.pc = "done")

\* C28 witness: the call has ended with OK after a cancellation that came after
\* at least one full round of updates for two topics
C28_Witness ==
    /\ rpc.pc = "done"
    /\ rpc.callback = <<"OK">>
    /\ rpc.cancelled
    /\ rpc.count \in 1..(MaxRounds - 1)
    /\ Len(UpdatesOf("Subscribed")) = 2
    /\ Len(UpdatesOf("Update")) >= 2


(***************************************************************************)
(* Eviction and expiry of the cache, step by step.                         *)
(***************************************************************************)
\* client c leaves HandleQueryData through AddToCache in this step
AddsToCache(c) == call[c].pc = "wait" /\ call'[c].pc = "done"

\* the entries whose age is below cache_ttl_seconds + 1 seconds: what the sweep
\* of the code leaves
Unswept(cache, t) ==
    SelectSeq(cache, LAMBDA e : t - e.timestamp < (cache_ttl_seconds_ + 1) * MsPerSecond)

\* C29: AddToCache, after the sweep, removes exactly one entry, the one
\* inserted earliest, when the cache holds cache_size entries, removes nothing
\* when it holds fewer, and appends the new entry last, so that the cache stays
\* ordered by insertion time
C29_FifoEviction ==
    [][\A c \in Clients :
          AddsToCache(c) =>
              LET swept == Unswept(query_cache_, now)
                  after == query_cache_'
              IN  /\ after # <<>>
                  /\ Last(after).query_id = call[c].request.query_id
                  /\ Last(after).response = call'[c].response
                  /\ Last(after).timestamp = now
                  /\ Len(swept) = cache_size_ => Front(after) = Tail(swept)
                  /\ Len(swept) < cache_size_ => Front(after) = swept
                  /\ Len(swept) <= cache_size_
                  /\ \A i, j \in 1..Len(after) :
                         i < j => after[i].timestamp <= after[j].timestamp]_vars

\* C29 witness: with room for two entries, two overlapping calls of one id have
\* each inserted their response and a call of the other id has inserted a third,
\* within the TTL: the cache was full at the third insertion
C29_Witness ==
    /\ cache_size_ = 2
    /\ Len(query_cache_) = 2
    /\ now = StartTime
    /\ history.fresh["q1"] # <<>>
    /\ history.fresh["q1"][1].shadowed
    /\ history.fresh["q1"][1].inserts >= 1
    /\ query_cache_[2].query_id = "q2"


(***************************************************************************)
(* One client repeating two queries while the clock advances by half       *)
(* ticks: the ages at which the cache is read are not whole seconds.       *)
(***************************************************************************)
ExpiryClient == "c1"

ExpiryRequests ==
    { ExactRequest("q1", ExpiryClient, PortalKey),
      ExactRequest("q2", ExpiryClient, PeerKey) }

InitExpiry == \E size \in 1..MaxCacheSize : Construct(PairTopology(size))

\* system_clock advances by half a tick between the steps of the peer tasks
HalfTick ==
    /\ now < StartTime + (MaxTicks + 1) * MsPerTick
    /\ \A c \in Clients : \A p \in DOMAIN tasks[c] : tasks[c][p].status = "finished"
    /\ now' = now + MsPerTick \div 2
    /\ UNCHANGED <<config_, data_map_, query_cache_, call, tasks, ncalls, history>>
    /\ UNCHANGED othervars

ExpiryQueryDataBegin ==
    ncalls < MaxCalls /\ QueryDataBegin({ExpiryClient}, {config_.portal}, ExpiryRequests)
ExpiryQueryDataLocal == QueryDataLocal({ExpiryClient})
ExpiryQueryDataEnd == QueryDataEnd({ExpiryClient})
ExpiryGatherDataBegin == GatherDataBegin({ExpiryClient})
ExpiryGatherDataEnd == GatherDataEnd({ExpiryClient})
ExpiryPeerTaskMerge == PeerTaskMerge({ExpiryClient})

NextExpiry ==
    \/ ExpiryQueryDataBegin
    \/ ExpiryQueryDataLocal
    \/ ExpiryQueryDataEnd
    \/ ExpiryGatherDataBegin
    \/ ExpiryGatherDataEnd
    \/ ExpiryPeerTaskMerge
    \/ HalfTick

SpecExpiry == InitExpiry /\ [][NextExpiry]_vars

\* the portal handler of client c runs CheckCache in this step
ChecksCache(c) ==
    /\ ncalls' = ncalls + 1
    /\ call'[c].start_time = now
    /\ is_portal_(call'[c].node)

\* the response a lookup hands out for a cached one
Served(response) == [response EXCEPT !.from_cache = TRUE, !.processing_time = 0]

\* the steps of SpecExpiry in which the cache is swept, with a rule for what is
\* expired: a lookup that hits returns an entry that is not expired; after a
\* sweep no expired entry is left; the sweep of a lookup removes no live entry
SweepsBy(Expired(_, _)) ==
    \A c \in {ExpiryClient} :
        /\ ChecksCache(c) /\ call'[c].pc = "done" =>
               \E i \in 1..Len(query_cache_) :
                   /\ query_cache_[i].query_id = call'[c].request.query_id
                   /\ Served(query_cache_[i].response) = call'[c].response
                   /\ ~Expired(query_cache_[i], now)
        /\ ChecksCache(c) \/ AddsToCache(c) =>
               \A i \in 1..Len(query_cache_') : ~Expired(query_cache_'[i], now)
        /\ ChecksCache(c) =>
               query_cache_' = SelectSeq(query_cache_, LAMBDA e : ~Expired(e, now))

\* what the claim calls expired: the age, in milliseconds, exceeds the TTL
ExpiredToTheMillisecond(entry, t) ==
    t - entry.timestamp > cache_ttl_seconds_ * MsPerSecond

\* what the code calls expired: the whole seconds of the age exceed the TTL
ExpiredInWholeSeconds(entry, t) ==
    t - entry.timestamp >= (cache_ttl_seconds_ + 1) * MsPerSecond

\* C30 (as claimed): an entry is expired exactly when now - insertion-timestamp
\* > cache_ttl_seconds, time taken at millisecond resolution; CheckCache never
\* returns an expired entry, and the sweep run by CheckCache and AddToCache
\* removes all expired entries and no live one
C30_ExpiryToTheMillisecond == [][SweepsBy(ExpiredToTheMillisecond)]_vars

\* what the code does: the same, with the age truncated to whole seconds
ExpiryInWholeSeconds == [][SweepsBy(ExpiredInWholeSeconds)]_vars

\* an entry older than the TTL by half a tick has been served from the cache
ServedPastTtl ==
    /\ call[ExpiryClient].pc = "done"
    /\ call[ExpiryClient].response.from_cache
    /\ \E i \in 1..Len(query_cache_) :
           /\ Served(query_cache_[i].response) = call[ExpiryClient].response
           /\ call[ExpiryClient].start_time - query_cache_[i].timestamp
                  > cache_ttl_seconds_ * MsPerSecond


(***************************************************************************)
(* Replies that are not merged.                                            *)
(***************************************************************************)
\* the task of path ends in this step, its call failed (no reply) or answered
\* with success = false
EndsUnmerged(c, path) ==
    /\ path \in DOMAIN tasks[c]
    /\ tasks[c][path].status \in {"sent", "replied"}
    /\ tasks[c][path].status = "sent" \/ ~tasks[c][path].response.success
    /\ tasks'[c][path].status = "finished"

\* C31: a peer response that arrives with a non-OK transport status or with
\* success = false contributes nothing: none of its data items and none of its
\* contributing nodes are appended to the caller's aggregated response
C31_FailedReplyContributesNothing ==
    [][\A path \in DOMAIN tasks[DownClient] :
          EndsUnmerged(DownClient, path) =>
              /\ call'[DownClient].response = call[DownClient].response
              /\ Front(path) \in DOMAIN tasks[DownClient] =>
                     tasks'[DownClient][Front(path)].response
                         = tasks[DownClient][Front(path)].response]_vars

\* C31 witness: the 'all' query has replied; C answered B with success = false
\* and all its items, and answered the portal with success = true: the reply
\* holds the items of every node once
C31_Witness ==
    /\ Replied(DownClient)
    /\ call[DownClient].request.query_type = "all"
    /\ Failed(DownClient) = {<<"A", "B", "C">>, <<"A", "C", "B">>}
    /\ ~tasks[DownClient][<<"A", "B", "C">>].response.success
    /\ Len(tasks[DownClient][<<"A", "B", "C">>].response.data_items) = 100
    /\ tasks[DownClient][<<"A", "C">>].response.success
    /\ tasks[DownClient][<<"A", "B">>].response.contributing_nodes = <<"B">>
    /\ Len(call[DownClient].response.results) = 300


(***************************************************************************)
(* One client on the reference topology, repeating one query id; every     *)
(* stage of the two handlers may raise an exception.                       *)
(***************************************************************************)
ThrowClient == "c1"

ThrowRequests ==
    { AllRequest("q1", ThrowClient), ExactRequest("q1", ThrowClient, 175) }

ThrowQueryDataBegin ==
    ncalls < MaxCalls /\ QueryDataBegin({ThrowClient}, {config_.portal}, ThrowRequests)
ThrowCheckCacheThrow ==
    /\ ncalls < MaxCalls
    /\ \E request \in ThrowRequests :
           HandleQueryData_Throw_CheckCache(ThrowClient, config_.portal, request)
ThrowQueryDataLocal == QueryDataLocal({ThrowClient})
ThrowQueryDataThrow == QueryDataThrow({ThrowClient})
ThrowQueryPeersThrow == QueryPeers_Throw(ThrowClient)
ThrowQueryDataEnd == QueryDataEnd({ThrowClient})
ThrowGatherDataBegin == GatherDataBegin({ThrowClient})
ThrowGatherDataThrow == GatherDataThrow({ThrowClient})
ThrowForwardThrow ==
    \E path \in DOMAIN tasks[ThrowClient] : ForwardRequestToPeers_Throw(ThrowClient, path)
ThrowGatherDataEnd == GatherDataEnd({ThrowClient})
ThrowPeerTaskMerge == PeerTaskMerge({ThrowClient})
ThrowPeerTaskFail ==
    \E path \in DOMAIN tasks[ThrowClient] :
        /\ tasks[ThrowClient][path].status = "replied"
        /\ ~tasks[ThrowClient][path].response.success
        /\ PeerTask_Fail(ThrowClient, path)

NextThrow ==
    \/ ThrowQueryDataBegin
    \/ ThrowCheckCacheThrow
    \/ ThrowQueryDataLocal
    \/ ThrowQueryDataThrow
    \/ ThrowQueryPeersThrow
    \/ ThrowQueryDataEnd
    \/ ThrowGatherDataBegin
    \/ ThrowGatherDataThrow
    \/ ThrowForwardThrow
    \/ ThrowGatherDataEnd
    \/ ThrowPeerTaskMerge
    \/ ThrowPeerTaskFail

SpecThrow == InitRef /\ [][NextThrow]_vars

\* the reply of a handler in which an exception was raised: success = false, the
\* exception text in the error message, transport status OK
InBand(thrown, response, callback) ==
    /\ ~response.success
    /\ response.error_message = "Exception: " \o thrown[1]
    /\ callback = <<"OK">>

\* the portal handler of c has replied and what it replied is not in the cache
NothingInserted(c) ==
    \A i \in 1..Len(query_cache_) : query_cache_[i].response # call[c].response

\* every handler that has replied after an exception whose text is among texts
\* replied in band, and QueryData then inserted nothing
RepliesInBand(texts) ==
    /\ \A c \in {ThrowClient} :
           (Replied(c) /\ call[c].thrown # <<>> /\ call[c].thrown[1] \in texts) =>
               /\ InBand(call[c].thrown, call[c].response, call[c].callback)
               /\ NothingInserted(c)
    /\ \A c \in {ThrowClient} : \A path \in DOMAIN tasks[c] :
           (/\ tasks[c][path].callback # <<>>
            /\ tasks[c][path].thrown # <<>>
            /\ tasks[c][path].thrown[1] \in texts) =>
               InBand(tasks[c][path].thrown, tasks[c][path].response, tasks[c][path].callback)

\* C32 (as claimed): an exception raised during cache lookup, local lookup or
\* fan-out inside HandleQueryData or HandleGatherData is turned into a reply with
\* success = false and the exception text in the error message under an OK
\* transport status, and QueryData then inserts nothing into the cache
C32_ExceptionsInBand ==
    RepliesInBand({"std::bad_alloc", "Resource temporarily unavailable"})

\* what the code does: so it is for the exceptions that leave CheckCache,
\* QueryLocalData and ProcessForwardedRequest
EscapingExceptionsInBand == RepliesInBand({"std::bad_alloc"})

\* QueryData has replied success = true and cached its reply although an
\* exception was raised inside QueryPeers
SwallowedAndCached ==
    /\ Replied(ThrowClient)
    /\ call[ThrowClient].thrown = <<"Resource temporarily unavailable">>
    /\ call[ThrowClient].response.success
    /\ ~NothingInserted(ThrowClient)


(***************************************************************************)
(* Lookups that hit.                                                       *)
(***************************************************************************)
\* the entries of the cache that answer query id q at time t: same id, age
\* below cache_ttl_seconds + 1 seconds
LiveEntries(q, t) ==
    {i \in 1..Len(query_cache_) :
        /\ query_cache_[i].query_id = q
        /\ t - query_cache_[i].timestamp < (cache_ttl_seconds_ + 1) * MsPerSecond}

\* the portal handler of client c starts in this step
BeginsAtPortal(c) ==
    /\ ncalls' = ncalls + 1
    /\ call'[c].pc \in {"local", "done"}
    /\ call'[c].request.query_id # ""
    /\ is_portal_(call'[c].node)

\* C33: a write QueryData whose query id matches a live cache entry is answered
\* from the cache (from_cache = true, the cached results) and is not applied: no
\* local store and no peer is touched and the stored value of the key stays what
\* it was
C33_CachedWriteNotApplied ==
    [][\A c \in {ReplyClient} :
          (/\ BeginsAtPortal(c)
           /\ call'[c].request.query_type = "write"
           /\ LiveEntries(call'[c].request.query_id, now) # {}) =>
              /\ call'[c].pc = "done"
              /\ call'[c].callback = <<"OK">>
              /\ call'[c].response.from_cache
              /\ \E i \in LiveEntries(call'[c].request.query_id, now) :
                     call'[c].response.results = query_cache_[i].response.results
              /\ data_map_' = data_map_
              /\ tasks'[c] = NoTasks]_vars

\* C33 witness: a write under the query id of a cached read has been answered
\* from the cache with the item the read returned, and the key still holds its
\* seeded value, not the value of the write
C33_Witness ==
    /\ call[ReplyClient].pc = "done"
    /\ call[ReplyClient].request = WriteRequest("q1", ReplyClient, PortalKey, "v1")
    /\ call[ReplyClient].response.from_cache
    /\ Len(call[ReplyClient].response.results) = 1
    /\ data_map_[config_.portal][PortalKey]
           = SerializeDataItem(CreateRandomDataItem(config_.portal, PortalKey, StartTime))
    /\ history.put = <<>>


\* the portal handler of client c is answered from the cache in this step
HitsCache(c) ==
    /\ BeginsAtPortal(c)
    /\ call'[c].pc = "done"
    /\ call'[c].response.from_cache

\* C34: a cache hit changes nothing in the cache except for the removal of
\* expired entries: the hit entry keeps its insertion timestamp and its position
\* (the TTL is absolute, not sliding), no entry is added, and the stored response
\* keeps from_cache = false while only the returned copy has from_cache = true
C34_HitLeavesCacheAlone ==
    /\ [](\A i \in 1..Len(query_cache_) : ~query_cache_[i].response.from_cache)
    /\ [][\A c \in {ExpiryClient} :
             HitsCache(c) =>
                 /\ query_cache_' = Unswept(query_cache_, now)
                 /\ \E i \in 1..Len(query_cache_') :
                        /\ query_cache_'[i].query_id = call'[c].request.query_id
                        /\ Served(query_cache_'[i].response) = call'[c].response
                        /\ \A j \in 1..Len(query_cache_') :
                               query_cache_'[j].query_id = call'[c].request.query_id => i <= j]_vars

\* C34 witness: a call was answered, a tick after the start, from the entry
\* inserted at the start, which stands first in a cache of two: the entry
\* is still there, with the timestamp of its insertion
C34_Witness ==
    /\ call[ExpiryClient].pc = "done"
    /\ call[ExpiryClient].response.from_cache
    /\ Len(query_cache_) = 2
    /\ query_cache_[1].query_id = call[ExpiryClient].request.query_id
    /\ Served(query_cache_[1].response) = call[ExpiryClient].response
    /\ query_cache_[1].timestamp = StartTime
    /\ call[ExpiryClient].start_time = StartTime + MsPerTick
    /\ now = call[ExpiryClient].start_time
    /\ query_cache_[2].timestamp > StartTime


(***************************************************************************)
(* Aggregation.                                                            *)
(***************************************************************************)
\* the tasks launched by the invocation of path whose reply was merged
Merged(c, path) ==
    {q \in Children(tasks[c], path) :
        tasks[c][q].status = "finished" /\ tasks[c][q].response.success}

\* seq is made of the data items of the replies of the tasks in S, one whole
\* reply after the other, in some order
RECURSIVE BlocksOf(_, _, _)
BlocksOf(c, seq, S) ==
    IF S = {} THEN seq = <<>>
    ELSE \E q \in S :
            LET items == tasks[c][q].response.data_items
            IN  /\ Len(items) <= Len(seq)
                /\ SubSeq(seq, 1, Len(items)) = items
                /\ BlocksOf(c, SubSeq(seq, Len(items) + 1, Len(seq)), S \ {q})

\* seq is the local items followed by the blocks of the merged replies
Aggregated(c, seq, local, path) ==
    /\ Len(local) <= Len(seq)
    /\ SubSeq(seq, 1, Len(local)) = local
    /\ BlocksOf(c, SubSeq(seq, Len(local) + 1, Len(seq)), Merged(c, path))

RECURSIVE SumOfLen(_, _)
SumOfLen(c, S) ==
    IF S = {} THEN 0
    ELSE LET q == CHOOSE q \in S : TRUE
         IN  Len(tasks[c][q].response.data_items) + SumOfLen(c, S \ {q})

\* C35: aggregation loses and interleaves nothing: under every interleaving of
\* the peer tasks the final results are the node's local items first, followed by
\* one contiguous block per merged peer response holding all of that response's
\* items in order, so that their number is the local count plus the sum of the
\* merged responses' item counts
C35_AggregationInBlocks ==
    \A c \in {DownClient} :
        /\ Uncached(c) =>
               LET n == call[c].node
                   local == QueryLocalData(n, data_range_(n), data_map_[n], call[c].request, now).results
               IN  /\ Aggregated(c, call[c].response.results, local, <<n>>)
                   /\ Len(call[c].response.results)
                          = Len(local) + SumOfLen(c, Merged(c, <<n>>))
        /\ \A path \in DOMAIN tasks[c] :
               (tasks[c][path].status \in {"replied", "finished"} /\ tasks[c][path].response.success) =>
                   LET n == Last(path)
                       local == ProcessForwardedRequest(data_range_(n), data_map_[n],
                                                        tasks[c][path].request)
                   IN  /\ Aggregated(c, tasks[c][path].response.data_items, local, path)
                       /\ Len(tasks[c][path].response.data_items)
                              = Len(local) + SumOfLen(c, Merged(c, path))

\* C35 witness: the reply to the 'all' query holds the 100 items of A, then the
\* block of C, then the block of B, each with the items of the third node behind
\* its own
C35_Witness ==
    /\ Uncached(DownClient)
    /\ call[DownClient].request.query_type = "all"
    /\ Merged(DownClient, <<"A">>) = {<<"A", "B">>, <<"A", "C">>}
    /\ Merged(DownClient, <<"A", "B">>) = {<<"A", "B", "C">>}
    /\ Merged(DownClient, <<"A", "C">>) = {<<"A", "C", "B">>}
    /\ SubSeq(call[DownClient].response.results, 101, 300)
           = tasks[DownClient][<<"A", "C">>].response.data_items
    /\ SubSeq(call[DownClient].response.results, 301, 500)
           = tasks[DownClient][<<"A", "B">>].response.data_items


(***************************************************************************)
(* Responses that have been handed back.                                   *)
(***************************************************************************)
\* every task launched by the invocation of path has finished
Joined(c, path) ==
    \A q \in Children(tasks[c], path) : tasks[c][q].status = "finished"

\* C36: no peer task modifies a response after it has been handed back:
\* QueryPeers and ForwardRequestToPeers return only after every task they
\* launched has finished, also when the 4 second wait loop gave up, so that a
\* response is never appended to after it has been inserted into the cache or
\* passed to the reply callback, and no task is left to use the aggregation
\* mutex once the fan-out function has returned
C36_NoAppendAfterHandBack ==
    /\ [](\A c \in {SlowClient} :
             /\ call[c].callback # <<>> => Joined(c, <<call[c].node>>)
             /\ query_cache_ # <<>> => Joined(c, <<call[c].node>>)
             /\ \A path \in DOMAIN tasks[c] :
                    tasks[c][path].callback # <<>> => Joined(c, path))
    /\ [][\A c \in {SlowClient} :
             /\ (call[c].callback # <<>> /\ ncalls' = ncalls) =>
                    call'[c].response = call[c].response
             /\ \A i \in 1..Len(query_cache_) :
                    i <= Len(query_cache_') => query_cache_'[i] = query_cache_[i]
             /\ \A path \in DOMAIN tasks[c] :
                    (tasks[c][path].callback # <<>> /\ ncalls' = ncalls) =>
                        tasks'[c][path].response = tasks[c][path].response]_vars

\* C36 witness: the wait loop gave up after 4 seconds, a task appended its items
\* after that, and only then was the response cached and handed to the callback
C36_Witness ==
    /\ call[SlowClient].pc = "done"
    /\ call[SlowClient].late
    /\ call[SlowClient].callback = <<"OK">>
    /\ Joined(SlowClient, <<call[SlowClient].node>>)
    /\ Len(query_cache_) = 1
    /\ query_cache_[1].response = call[SlowClient].response
    /\ now - call[SlowClient].start_time >= FanOutTimeout


(***************************************************************************)
(* Ownership of the stored items.                                          *)
(***************************************************************************)
\* the item stored under key k at node n, as a lookup reads it
StoredItem(n, k) == DeserializeDataItem(data_map_[n][k])

\* C37: in every reachable state every item in node n's local store is stored
\* under its own key and has source_node = n, whether it was seeded at start-up
\* or written by a write query
C37_StoredItemsOwned ==
    \A n \in config_.nodes : \A k \in DOMAIN data_map_[n] :
        /\ StoredItem(n, k).key = k
        /\ StoredItem(n, k).source_node = n

\* C37 witness: the portal holds a written item under key 0 next to seeded
\* items, one of them under a negative key
C37_Witness ==
    /\ ncalls = SeedCalls
    /\ call[SeedClient].pc = "done"
    /\ 0 \in DOMAIN data_map_["A"]
    /\ StoredItem("A", 0).data_type = "string"
    /\ StoredItem("A", 0).string_value = "v1"
    /\ \E k \in DOMAIN data_map_["A"] : k < 0 /\ Seeded(StoredItem("A", k))


(***************************************************************************)
(* The peers the portal asks.                                              *)
(***************************************************************************)
\* the keys of node p that query request is about
Wanted(p, request) ==
    {k \in data_range_(p)[1]..data_range_(p)[2] :
        IF request.query_type = "exact" THEN k = request.key
        ELSE IF request.query_type = "range"
        THEN request.range_start <= k /\ k <= request.range_end
        ELSE TRUE}

\* C38: the portal contacts only direct peers whose own range matches the query,
\* so an exact query for a key owned by a node that is not listed in the portal's
\* connects_to returns success = true with empty results, even when that node is
\* reachable through intermediate peers within max_hops
C38_OnlyMatchingDirectPeers ==
    \A c \in {TopoClient} :
        /\ \A path \in DOMAIN tasks[c] :
               Len(path) = 2 =>
                   /\ path[1] = config_.portal
                   /\ path[2] \in config_.connects_to[config_.portal]
                   /\ Wanted(path[2], call[c].request) # {}
        /\ (/\ Uncached(c)
            /\ call[c].request.query_type = "exact"
            /\ Owner(config_, call[c].request.key)
                   \cap ({config_.portal} \cup config_.connects_to[config_.portal]) = {})
               => /\ call[c].response.results = <<>>
                  /\ call[c].response.error_message = ""
                  /\ tasks[c] = NoTasks

\* C38 witness: on the chain the exact query for the first key of C, two hops
\* from the portal, has replied success = true without an item
C38_Witness ==
    /\ config_ = ChainTopology
    /\ Uncached(TopoClient)
    /\ call[TopoClient].request.query_type = "exact"
    /\ call[TopoClient].request.key = data_range_("C")[1]
    /\ "C" \in Within(config_, 2) \ Within(config_, 1)
    /\ call[TopoClient].response.results = <<>>
    /\ call[TopoClient].first_use


(***************************************************************************)
(* One QueryData on any peer graph, cyclic ones included; a peer call is    *)
(* answered or ends at its deadline, and every thread keeps running.       *)
(***************************************************************************)
LiveClient == "c1"

\* three nodes in a ring, the ring with the portal listing itself as well, and
\* the chain
LiveTopologies ==
    { SmallTopology(3, [n \in SmallNodes(3) |->
                          IF n = "A" THEN {"B"} ELSE IF n = "B" THEN {"C"} ELSE {"A"}], 1),
      SmallTopology(3, [n \in SmallNodes(3) |->
                          IF n = "A" THEN {"A", "B"} ELSE IF n = "B" THEN {"C"} ELSE {"A"}], 1),
      ChainTopology }

InitLive == \E cfg \in LiveTopologies : Construct(cfg)

LiveRequests ==
    IF ncalls = 0 THEN
        { AllRequest("q1", LiveClient),
          RangeRequest("q1", LiveClient, KeysPerNode, KeysPerNode + 1) }
    ELSE {}

LiveQueryDataBegin == QueryDataBegin({LiveClient}, {config_.portal}, LiveRequests)
LiveQueryDataLocal == QueryDataLocal({LiveClient})
LiveQueryDataEnd == QueryDataEnd({LiveClient})
LiveGatherDataBegin == GatherDataBegin({LiveClient})
LiveGatherDataEnd == GatherDataEnd({LiveClient})
LivePeerTaskMerge == PeerTaskMerge({LiveClient})
LivePeerTaskFail == PeerTaskFail({LiveClient})

\* the steps of the handler threads and of the tasks
LiveThreads ==
    \/ LiveQueryDataLocal
    \/ LiveQueryDataEnd
    \/ LiveGatherDataBegin
    \/ LiveGatherDataEnd
    \/ LivePeerTaskMerge
    \/ LivePeerTaskFail

NextLive ==
    \/ LiveQueryDataBegin
    \/ LiveThreads

SpecLive == InitLive /\ [][NextLive]_vars /\ WF_vars(LiveThreads)

\* the GatherData invocations one QueryData has triggered stay within max_hops of
\* the portal, and no route path holds more than max_hops + 1 node ids
RoutesBounded ==
    \A c \in {LiveClient} : \A path \in DOMAIN tasks[c] :
        /\ Len(path) <= MaxHops + 1
        /\ Len(tasks[c][path].request.route_path) <= MaxHops
        /\ Len(tasks[c][path].response.route_path) <= MaxHops + 1

\* C39: for every topology, cyclic peer graphs included, one QueryData triggers
\* only finitely many GatherData invocations, every route path holds at most
\* max_hops + 1 = 4 node ids, and QueryData eventually replies provided every
\* outbound peer call eventually returns or hits its 5 second deadline
C39_QueryTerminates ==
    /\ []RoutesBounded
    /\ (call[LiveClient].pc \in {"local", "wait"}) ~> (call[LiveClient].pc = "done")

\* C39 witness: on the ring whose portal lists itself the 'all' query has
\* replied after the portal called itself and the request went on to B and C
C39_Witness ==
    /\ "A" \in config_.connects_to["A"]
    /\ Replied(LiveClient)
    /\ call[LiveClient].request.query_type = "all"
    /\ <<"A", "A", "B", "C">> \in DOMAIN tasks[LiveClient]
    /\ tasks[LiveClient][<<"A", "A", "B", "C">>].status = "finished"
    /\ Len(tasks[LiveClient][<<"A", "A", "B", "C">>].response.route_path) = MaxHops + 1


(***************************************************************************)
(* One client repeating an 'all' query on the pair while the peer may fail  *)
(* and the clock advances by half ticks.                                   *)
(***************************************************************************)
DegradedClient == "c1"

DegradedRequests == {AllRequest("q1", DegradedClient)}

DegradedQueryDataBegin ==
    ncalls < MaxCalls /\ QueryDataBegin({DegradedClient}, {config_.portal}, DegradedRequests)
DegradedQueryDataLocal == QueryDataLocal({DegradedClient})
DegradedQueryDataEnd == QueryDataEnd({DegradedClient})
DegradedGatherDataBegin == GatherDataBegin({DegradedClient})
DegradedGatherDataEnd == GatherDataEnd({DegradedClient})
DegradedPeerTaskMerge == PeerTaskMerge({DegradedClient})
DegradedPeerTaskFail == PeerTaskFail({DegradedClient})

NextDegraded ==
    \/ DegradedQueryDataBegin
    \/ DegradedQueryDataLocal
    \/ DegradedQueryDataEnd
    \/ DegradedGatherDataBegin
    \/ DegradedGatherDataEnd
    \/ DegradedPeerTaskMerge
    \/ DegradedPeerTaskFail
    \/ HalfTick

SpecDegraded == InitExpiry /\ [][NextDegraded]_vars

\* the last uncached reply to the query id of the call of c lacked keys of the
\* topology
PriorWasPartial(c) ==
    /\ call[c].prior # <<>>
    /\ KeysOf(call[c].prior[1].results) # AllKeys(config_)

\* C40: when QueryData completes with partial results because a peer failed or
\* timed out, that response is inserted into the cache as a success, and a
\* re-issue with the same query id within the TTL returns the same partial
\* results with from_cache = true without contacting any peer, even if the peer
\* has recovered
C40_DegradedResultsCached ==
    \A c \in {DegradedClient} :
        /\ (Uncached(c) /\ call[c].lossy) =>
               /\ query_cache_ # <<>>
               /\ Last(query_cache_).query_id = call[c].request.query_id
               /\ Last(query_cache_).response = call[c].response
               /\ Last(query_cache_).response.success
        /\ (WithinTtlOfPrior(c) /\ PriorWasPartial(c)) =>
               /\ AnsweredFromPrior(c)
               /\ call[c].response.success
               /\ call[c].callback = <<"OK">>
               /\ tasks[c] = NoTasks

\* C40 witness: half a tick after a reply that lacked the keys of the failed
\* peer, the same query was answered from the cache with the keys of the portal
\* only
C40_Witness ==
    /\ call[DegradedClient].pc = "done"
    /\ call[DegradedClient].response.from_cache
    /\ PriorWasPartial(DegradedClient)
    /\ call[DegradedClient].start_time > call[DegradedClient].prior[1].time
    /\ WithinTtlOfPrior(DegradedClient)
    /\ KeysOf(call[DegradedClient].response.results) = KeysOfNodes(config_, {config_.portal})
    /\ tasks[DegradedClient] = NoTasks

====
